---------------------------- MODULE Spec2Model ----------------------------
(***************************************************************************)
(* A model of the image core of src/src/lib/image-utils.ts:                *)
(*   createCodeBasedClothingMask  (op = "mask")                            *)
(*   removeWhiteBackground        (op = "rwb")                             *)
(*   applyMaskToImage             (op = "apply")                           *)
(* A pixel is <<r, g, b, a>> with channels in 0..255.  A decoded image is  *)
(* a width, a height and a sequence of width*height pixels in row-major    *)
(* order: the pixel (x, y) of the source sits at position pixIdx(x,y) + 1. *)
(* Math.round over the non-negative numbers met here is round-half-up and  *)
(* is written with integer division.                                       *)
(***************************************************************************)
EXTENDS Integers, Sequences, FiniteSets, TLC

(***************************************************************************)
(* Bounds of the model.                                                    *)
(***************************************************************************)
\* small images: every image with at most two palette colours
MaxDim == 4
MaxPixels == 9
\* large images (uniform, or one rectangle on a uniform background)
MaxRectDim == 6
\* applyMaskToImage: number of pixels of the original
MaxApplyPixels == 2
\* removeGreenBackground: number of pixels of the image
MaxGreenPixels == 2
\* images of the anti-alias pass: 3..MaxFeatherDim wide and high
MaxFeatherDim == 3
\* images of the skin phase: a probe colour among pixels of a second colour
MaxSkinPixels == 4
\* images of the cleanup passes: widths 6..MaxMorphWidth
MaxMorphWidth == 6

(***************************************************************************)
(* Program constants.                                                      *)
(***************************************************************************)
bgThreshold == 35
rwbThreshold == 30
defaultBg == 245
applyDefaultThreshold == 128
edgeBand == 30
morphMargin == 2
greenDefaultTolerance == 80

(***************************************************************************)
(* Colours the inputs are drawn from.                                      *)
(*   White  light for both light tests                                     *)
(*   Silver light for both, 65 away from White; the mean of White and      *)
(*          Silver anchors can be dissimilar to both                       *)
(*   Ash    light for isLightBg (min > 150) only, not for                  *)
(*          isLightBackground (min > 160)                                  *)
(*   Red    saturated, fails every light and every skin test               *)
(*   Skin   mannequin beige (h = 30, s = 28.6, v = 82.4), half transparent *)
(***************************************************************************)
White == <<255, 255, 255, 255>>
Silver == <<190, 190, 190, 255>>
Ash == <<158, 158, 158, 255>>
Red == <<200, 30, 30, 255>>
Skin == <<210, 180, 150, 128>>

Palette == {White, Silver, Ash, Red, Skin}

Max2(a, b) == IF a >= b THEN a ELSE b
Min2(a, b) == IF a <= b THEN a ELSE b
Max3(a, b, c) == Max2(a, Max2(b, c))
Min3(a, b, c) == Min2(a, Min2(b, c))
Abs(a) == IF a < 0 THEN -a ELSE a

\* Math.round(num / den) for num >= 0, den > 0
RoundDiv(num, den) == (2 * num + den) \div (2 * den)

\* position of (x, y) in a row-major sequence of a w-wide image
pixIdx(x, y, w) == y * w + x + 1
XOf(p, w) == (p - 1) % w
YOf(p, w) == (p - 1) \div w


(***************************************************************************)
(* Background sampling and the similarity tests.                           *)
(***************************************************************************)
\* mutant: a stricter brightness floor
isLightBg_Strict(px) ==
    /\ Min3(px[1], px[2], px[3]) > 200
    /\ Max3(px[1], px[2], px[3]) - Min3(px[1], px[2], px[3]) < 55

\* createCodeBasedClothingMask: min > 150 and max - min < 55
isLightBg(px) ==
    /\ Min3(px[1], px[2], px[3]) > 150
    /\ Max3(px[1], px[2], px[3]) - Min3(px[1], px[2], px[3]) < 55

\* removeWhiteBackground: min > 160 and max - min < 50
isLightBackground(px) ==
    /\ Min3(px[1], px[2], px[3]) > 160
    /\ Max3(px[1], px[2], px[3]) - Min3(px[1], px[2], px[3]) < 50

\* the 8 anchor points, in the order of the source, as <<x, y>>
corners(w, h) ==
    << <<0, 0>>, <<w - 1, 0>>, <<0, h - 1>>, <<w - 1, h - 1>>,
       <<w \div 2, 0>>, <<w \div 2, h - 1>>,
       <<0, h \div 2>>, <<w - 1, h \div 2>> >>

AnchorPixel(pix, w, h, k) == pix[pixIdx(corners(w, h)[k][1], corners(w, h)[k][2], w)]

\* the accumulation loop over the anchors: <<bgR, bgG, bgB, bgCount>> after
\* anchors k..8 have been added to acc; useRwb selects the light test
RECURSIVE SampleLoop(_, _, _, _, _, _)
SampleLoop(pix, w, h, useRwb, k, acc) ==
    IF k > 8 THEN acc
    ELSE LET c == AnchorPixel(pix, w, h, k)
             ok == IF useRwb THEN isLightBackground(c) ELSE isLightBg(c)
         IN  SampleLoop(pix, w, h, useRwb, k + 1,
                 IF ok THEN <<acc[1] + c[1], acc[2] + c[2], acc[3] + c[3], acc[4] + 1>>
                 ELSE acc)

\* mutant: truncates instead of rounding
MeanOf_Floor(acc) == <<acc[1] \div acc[4], acc[2] \div acc[4], acc[3] \div acc[4]>>

\* mutant: averages over all 8 anchors instead of the qualifying ones
MeanOf_OverAllAnchors(acc) ==
    <<RoundDiv(acc[1], 8), RoundDiv(acc[2], 8), RoundDiv(acc[3], 8)>>

\* Math.round(sum / bgCount) per channel
MeanOf(acc) ==
    <<RoundDiv(acc[1], acc[4]), RoundDiv(acc[2], acc[4]), RoundDiv(acc[3], acc[4])>>

\* three channel deltas within the threshold
isSimilar(px, est, thr) ==
    /\ Abs(px[1] - est[1]) <= thr
    /\ Abs(px[2] - est[2]) <= thr
    /\ Abs(px[3] - est[3]) <= thr

\* createCodeBasedClothingMask's per-pixel fill test
isSimilarToBg(px, est) == isSimilar(px, est, bgThreshold) /\ isLightBg(px)

\* removeWhiteBackground's per-pixel fill test
isSimilarRwb(px, est, thr) == isSimilar(px, est, thr) /\ isLightBackground(px)

\* the fill test of every pixel, as the flood fill of the operation sees it
SimMap(pix, useRwb, est, thr) ==
    [p \in 1..Len(pix) |->
        IF useRwb THEN isSimilarRwb(pix[p], est, thr) ELSE isSimilarToBg(pix[p], est)]

(***************************************************************************)
(* The flood fill.  fs is [queue, visited]: queue the sequence of <<x, y>> *)
(* pairs pushed so far (the source's flat array holds 2 numbers per pair), *)
(* visited a 0/1 sequence.                                                 *)
(***************************************************************************)
Push(fs, x, y, w) ==
    [queue |-> Append(fs.queue, <<x, y>>),
     visited |-> [fs.visited EXCEPT ![pixIdx(x, y, w)] = 1]]

\* first seeding loop: top and bottom edge, neither guarded by visited
SeedTopPush(fs, sim, x, w, h) ==
    IF sim[pixIdx(x, 0, w)] THEN Push(fs, x, 0, w) ELSE fs

SeedBottomPush(fs, sim, x, w, h) ==
    IF sim[pixIdx(x, h - 1, w)] THEN Push(fs, x, h - 1, w) ELSE fs

RECURSIVE SeedRows(_, _, _, _, _)
SeedRows(fs, sim, x, w, h) ==
    IF x >= w THEN fs
    ELSE SeedRows(SeedBottomPush(SeedTopPush(fs, sim, x, w, h), sim, x, w, h),
                  sim, x + 1, w, h)

\* second seeding loop: left and right edge, guarded by visited
SeedSidePush(fs, sim, x, y, w) ==
    IF fs.visited[pixIdx(x, y, w)] = 0 /\ sim[pixIdx(x, y, w)]
    THEN Push(fs, x, y, w) ELSE fs

RECURSIVE SeedCols(_, _, _, _, _)
SeedCols(fs, sim, y, w, h) ==
    IF y >= h THEN fs
    ELSE SeedCols(SeedSidePush(SeedSidePush(fs, sim, 0, y, w), sim, w - 1, y, w),
                  sim, y + 1, w, h)

SeedEdges(sim, w, h) ==
    SeedCols(SeedRows([queue |-> <<>>, visited |-> [p \in 1..(w * h) |-> 0]],
                      sim, 0, w, h),
             sim, 0, w, h)

\* mutant: the upper neighbour twice, the lower one never
neighbors_NoDown(x, y) == << <<x - 1, y>>, <<x + 1, y>>, <<x, y - 1>>, <<x, y - 1>> >>

neighbors(x, y) == << <<x - 1, y>>, <<x + 1, y>>, <<x, y - 1>>, <<x, y + 1>> >>

\* one neighbour of a dequeued pixel
Visit(fs, sim, n, w, h) ==
    IF /\ n[1] >= 0 /\ n[1] < w /\ n[2] >= 0 /\ n[2] < h
       /\ fs.visited[pixIdx(n[1], n[2], w)] = 0
       /\ sim[pixIdx(n[1], n[2], w)]
    THEN Push(fs, n[1], n[2], w) ELSE fs

\* the four neighbours of the pair at queue position qi, in source order
Expand(fs, sim, qi, w, h) ==
    LET nb == neighbors(fs.queue[qi][1], fs.queue[qi][2])
    IN  Visit(Visit(Visit(Visit(fs, sim, nb[1], w, h), sim, nb[2], w, h),
                    sim, nb[3], w, h), sim, nb[4], w, h)

\* while (qi < queue.length): fl is [queue, visited, marked]; marked is the
\* 0/1 sequence of the pixels the loop body has written (mask 0 / alpha 0)
RECURSIVE FloodLoop(_, _, _, _, _)
FloodLoop(fl, sim, qi, w, h) ==
    IF qi > Len(fl.queue) THEN fl
    ELSE LET ex == Expand([queue |-> fl.queue, visited |-> fl.visited], sim, qi, w, h)
             here == pixIdx(fl.queue[qi][1], fl.queue[qi][2], w)
         IN  FloodLoop([queue |-> ex.queue, visited |-> ex.visited,
                        marked |-> [fl.marked EXCEPT ![here] = 1]],
                       sim, qi + 1, w, h)

FloodFill(fs, sim, w, h) ==
    FloodLoop([queue |-> fs.queue, visited |-> fs.visited,
               marked |-> [p \in 1..(w * h) |-> 0]], sim, 1, w, h)

(***************************************************************************)
(* Phase 2 of createCodeBasedClothingMask: HSV and the mannequin tests.    *)
(* The source computes h, s, v in floating point from r/255, g/255, b/255; *)
(* here they are exact fractions over the 0..255 channels:                 *)
(*   h = hueNum / hueDen (degrees), s = 100 * delta / cmax, v = 100 *      *)
(*   cmax / 255, and every comparison is cross-multiplied.  The doubles of *)
(* the source differ from the exact values by rounding errors of the order *)
(* of 1e-14; that changes a comparison only for a colour whose exact h or  *)
(* s is equal to a bound (v is never equal to one).  For those colours the *)
(* outcome of the double computation is tabled below, for the colours the  *)
(* inputs are drawn from (Palette and SkinProbe).                          *)
(***************************************************************************)
\* Colours at and around the bounds of the three tests, with h, s, v as the
\* source computes them:
\*   <<128, 83, 74>>   h =  9.999999999999998 (exactly 10), s = 42.2, v = 50.2
\*   <<128, 88, 80>>   h = 10.0               (exactly 10), s = 37.5, v = 50.2
\*   <<128, 84, 74>>   h = 11.1, s = 42.2, v = 50.2
\*   <<128, 82, 74>>   h =  8.9, s = 42.2, v = 50.2
\*   <<128, 118, 68>>  h = 50.00000000000001 (exactly 50), s = 46.9, v = 50.2
\*   <<92, 71, 69>>    h =  5.2, s = 25.000000000000007 (exactly 25), v = 36.1
\*   <<90, 79, 78>>    h =  4.999999999999982 (exactly 5), s = 13.3, v = 35.3
\*   <<120, 110, 100>> h = 30, s = 16.7, v = 47.1
\*   <<201, 198, 225>> h = 246.7, s = 11.999999999999995 (exactly 12), v = 88.2
\*   <<230, 225, 220>> h = 30, s = 4.3, v = 90.2
\*   <<30, 30, 200>>   h = 240, s = 85, v = 78.4
SkinProbe ==
    { <<128, 83, 74, 255>>, <<128, 88, 80, 255>>, <<128, 84, 74, 255>>,
      <<128, 82, 74, 255>>, <<128, 118, 68, 255>>, <<92, 71, 69, 255>>,
      <<90, 79, 78, 255>>, <<120, 110, 100, 255>>, <<201, 198, 225, 255>>,
      <<230, 225, 220, 255>>, <<30, 30, 200, 255>> }

rgbOf(px) == <<px[1], px[2], px[3]>>

\* h is exactly 10 or 50 and its double lies outside [10, 50]
hueDoubleOutsideSkin == { <<128, 83, 74>>, <<128, 118, 68>> }

\* h is exactly 5 (resp. s exactly 25) and its double lies outside [5, 55]
\* (resp. [3, 25])
doubleOutsideShadow == { <<90, 79, 78>>, <<92, 71, 69>> }

\* s is exactly 12 and its double lies below 12
satDoubleBelow12 == { <<201, 198, 225>> }

cmaxOf(px) == Max3(px[1], px[2], px[3])
cminOf(px) == Min3(px[1], px[2], px[3])
deltaOf(px) == cmaxOf(px) - cminOf(px)

hueDen(px) == IF deltaOf(px) > 0 THEN deltaOf(px) ELSE 1

\* numerator of h before "if (h < 0) h += 360"; ((gn - bn) / delta) % 6 keeps
\* the sign of its left operand and |gn - bn| <= delta, so % 6 changes nothing
hueRaw(px) ==
    IF deltaOf(px) = 0 THEN 0
    ELSE IF cmaxOf(px) = px[1] THEN 60 * (px[2] - px[3])
    ELSE IF cmaxOf(px) = px[2] THEN 60 * (px[3] - px[1]) + 120 * deltaOf(px)
    ELSE 60 * (px[1] - px[2]) + 240 * deltaOf(px)

hueNum(px) == IF hueRaw(px) < 0 THEN hueRaw(px) + 360 * hueDen(px) ELSE hueRaw(px)

\* lo <= h <= hi
HueIn(px, lo, hi) == lo * hueDen(px) <= hueNum(px) /\ hueNum(px) <= hi * hueDen(px)

\* lo <= s <= hi, with s = 0 when cmax = 0
SatIn(px, lo, hi) ==
    IF cmaxOf(px) = 0 THEN lo <= 0 /\ 0 <= hi
    ELSE lo * cmaxOf(px) <= 100 * deltaOf(px) /\ 100 * deltaOf(px) <= hi * cmaxOf(px)

\* s < hi
SatBelow(px, hi) ==
    IF cmaxOf(px) = 0 THEN 0 < hi ELSE 100 * deltaOf(px) < hi * cmaxOf(px)

\* lo <= v <= hi
ValIn(px, lo, hi) == lo * 255 <= 100 * cmaxOf(px) /\ 100 * cmaxOf(px) <= hi * 255

\* lo < v < hi
ValBetween(px, lo, hi) == lo * 255 < 100 * cmaxOf(px) /\ 100 * cmaxOf(px) < hi * 255

isMannequinSkin(px) ==
    /\ HueIn(px, 10, 50) /\ rgbOf(px) \notin hueDoubleOutsideSkin
    /\ SatIn(px, 5, 48)
    /\ ValIn(px, 50, 96)

isMannequinShadow(px) ==
    /\ HueIn(px, 5, 55) /\ SatIn(px, 3, 25) /\ rgbOf(px) \notin doubleOutsideShadow
    /\ ValIn(px, 35, 65)

isMannequinHighlight(px) ==
    /\ SatBelow(px, 12) \/ rgbOf(px) \in satDoubleBelow12
    /\ ValBetween(px, 82, 98)
    /\ px[1] > 200 /\ px[2] > 190 /\ px[3] > 175
    /\ px[1] - px[3] < 40

\* the mask after the skin loop
SkinPass(pix, m) ==
    [p \in 1..Len(m) |->
        IF m[p] = 0 THEN 0
        ELSE IF isMannequinSkin(pix[p]) \/ isMannequinShadow(pix[p])
                \/ isMannequinHighlight(pix[p])
        THEN 0 ELSE 255]

(***************************************************************************)
(* Phase 3 of createCodeBasedClothingMask: morphological cleanup over the  *)
(* 5x5 window, on pixels at least morphMargin away from every border.      *)
(***************************************************************************)
IsInterior(p, w, h) ==
    /\ XOf(p, w) >= morphMargin /\ XOf(p, w) < w - morphMargin
    /\ YOf(p, w) >= morphMargin /\ YOf(p, w) < h - morphMargin

Window == {d \in (-2..2) \X (-2..2) : d # <<0, 0>>}

\* whiteNeighbors of an interior pixel p in m
whiteNeighbors(m, p, w) ==
    Cardinality({d \in Window : m[pixIdx(XOf(p, w) + d[1], YOf(p, w) + d[2], w)] = 255})

totalChecked == Cardinality(Window)

\* mutant: pass 1 reads the mask it is writing (no copy)
NoiseOne_InPlace(m, p, w, h) ==
    IF /\ IsInterior(p, w, h) /\ m[p] = 255
       /\ 10 * whiteNeighbors(m, p, w) < 4 * totalChecked
    THEN [m EXCEPT ![p] = 0] ELSE m

RECURSIVE NoiseLoop_InPlace(_, _, _, _)
NoiseLoop_InPlace(m, p, w, h) ==
    IF p > Len(m) THEN m
    ELSE NoiseLoop_InPlace(NoiseOne_InPlace(m, p, w, h), p + 1, w, h)

NoisePass_InPlace(m, w, h) == NoiseLoop_InPlace(m, 1, w, h)

\* pass 1: every decision reads mask, the result goes to cleanMask
NoisePass(m, w, h) ==
    [p \in 1..Len(m) |->
        IF /\ IsInterior(p, w, h) /\ m[p] = 255
           /\ 10 * whiteNeighbors(m, p, w) < 4 * totalChecked
        THEN 0 ELSE m[p]]

\* mutant: pass 2 fills holes in the flood-filled background too
FillOne_IgnoresVisited(cm, vis, p, w, h) ==
    IF /\ IsInterior(p, w, h) /\ cm[p] = 0
       /\ 10 * whiteNeighbors(cm, p, w) > 6 * totalChecked
    THEN [cm EXCEPT ![p] = 255] ELSE cm

\* pass 2 at one pixel: reads and writes cleanMask
FillOne(cm, vis, p, w, h) ==
    IF /\ IsInterior(p, w, h) /\ cm[p] = 0 /\ vis[p] = 0
       /\ 10 * whiteNeighbors(cm, p, w) > 6 * totalChecked
    THEN [cm EXCEPT ![p] = 255] ELSE cm

\* pass 2: row-major scan (y outer, x inner) from position p on
RECURSIVE HoleLoop(_, _, _, _, _)
HoleLoop(cm, vis, p, w, h) ==
    IF p > Len(cm) THEN cm
    ELSE HoleLoop(FillOne(cm, vis, p, w, h), vis, p + 1, w, h)

\* mutant: every pixel is tested against the mask the pass was given
HolePass_Snapshot(cm, vis, w, h) ==
    [p \in 1..Len(cm) |-> FillOne(cm, vis, p, w, h)[p]]

HolePass(cm, vis, w, h) == HoleLoop(cm, vis, 1, w, h)

\* the output mask image: v, v, v, 255
MaskImage(cm) == [p \in 1..Len(cm) |-> <<cm[p], cm[p], cm[p], 255>>]

(***************************************************************************)
(* removeWhiteBackground: alpha of the filled pixels, then the anti-alias  *)
(* pass over the pixels at least 1 away from every border.                 *)
(***************************************************************************)
ClearMarked(pix, marked) ==
    [p \in 1..Len(pix) |->
        IF marked[p] = 1 THEN <<pix[p][1], pix[p][2], pix[p][3], 0>> ELSE pix[p]]

\* mutant: the product is truncated (stored without Math.round)
fadeAlpha_Truncated(alpha, n) == (alpha * (100 - 15 * n)) \div 100

\* Math.round(alpha * (1 - n * 0.15)) in IEEE doubles: the exact product
\* rounded half up, except where the double product falls just below .5
fadeAlpha(alpha, n) ==
    IF n = 2 /\ alpha \in {45, 85, 165, 175}
    THEN (alpha * 70 - 50) \div 100
    ELSE RoundDiv(alpha * (100 - 15 * n), 100)

transparentNeighbors(pix, p, w) ==
    Cardinality({k \in 1..4 :
        pix[pixIdx(neighbors(XOf(p, w), YOf(p, w))[k][1],
                   neighbors(XOf(p, w), YOf(p, w))[k][2], w)][4] = 0})

AntiAlias(pix, w, h) ==
    [p \in 1..Len(pix) |->
        IF /\ XOf(p, w) >= 1 /\ XOf(p, w) < w - 1
           /\ YOf(p, w) >= 1 /\ YOf(p, w) < h - 1
           /\ pix[p][4] > 0
           /\ transparentNeighbors(pix, p, w) > 0
           /\ transparentNeighbors(pix, p, w) < 4
        THEN <<pix[p][1], pix[p][2], pix[p][3],
               fadeAlpha(pix[p][4], transparentNeighbors(pix, p, w))>>
        ELSE pix[p]]

(***************************************************************************)
(* Input images.                                                           *)
(***************************************************************************)
NoRect == <<0, 0, -1, -1>>

Img(kind, w, h, px, rect) == [kind |-> kind, w |-> w, h |-> h, px |-> px, rect |-> rect]

\* an input whose bytes sharp cannot decode
Bad == Img("bad", 0, 0, <<>>, NoRect)

SmallDims == {d \in (1..MaxDim) \X (1..MaxDim) : d[1] * d[2] <= MaxPixels}

ColourPairs == {{a, b} : a \in Palette, b \in Palette}

InRect(x, y, r) == r[1] <= x /\ x <= r[3] /\ r[2] <= y /\ y <= r[4]

RectBackgrounds == {White, Ash}
RectColours == {Red}

\* the pixels of one solid axis-aligned rectangle r = <<x0, y0, x1, y1>> of
\* colour fg on a uniform background bg
RectPixels(w, h, r, bg, fg) ==
    [p \in 1..(w * h) |-> IF InRect(XOf(p, w), YOf(p, w), r) THEN fg ELSE bg]

Rects(w, h) ==
    {q \in (0..(w - 1)) \X (0..(h - 1)) \X (0..(w - 1)) \X (0..(h - 1)) :
        q[1] <= q[3] /\ q[2] <= q[4]}

(***************************************************************************)
(* State.                                                                  *)
(***************************************************************************)
VARIABLES
    op,         \* "mask", "rwb", "apply", "green" or "process": what was called
    pc,         \* position in the function
    input,      \* the image passed in (base64Data / imageBase64)
    threshold,  \* removeWhiteBackground's and applyMaskToImage's threshold
    width, height,
    pixels,     \* the decoded RGBA buffer (removeWhiteBackground writes alpha)
    bgCount,    \* number of anchors that passed the light test
    bg,         \* <<bgR, bgG, bgB>>
    queue,      \* sequence of <<x, y>>; queue.length = 2 * Len(queue)
    visited,
    mask,
    cleanMask,
    result,     \* what the function returned or threw
    maskIn,     \* applyMaskToImage: the mask image passed in
    maskPixels, \* applyMaskToImage: the mask as the pixel loop reads it
    ai,         \* applyMaskToImage: the loop index i
    outputPixels,
    tolerance,  \* removeGreenBackground: the tolerance passed in
    firstResult, \* what the first of two successive calls returned
    step1Items, \* /api/process: the rows read from the spreadsheet
    itemIndex,  \* /api/process: the item loop's i
    step1Image, step2Image, step3Image, step4Image,
    completedSteps,
    events,     \* /api/process: the events sent on the stream, in order
    controllerCalls, \* /api/process: the calls made on the stream controller
    unread,     \* startPipeline: the bytes of the response not yet read
    pending,    \* startPipeline: bytes the TextDecoder holds back
    buffer,     \* startPipeline: the text after the last line break
    dispatched  \* startPipeline: the events handled by the switch, in order

vars == <<op, pc, input, threshold, width, height, pixels, bgCount, bg, queue,
          visited, mask, cleanMask, result,
          maskIn, maskPixels, ai, outputPixels, tolerance, firstResult,
          step1Items, itemIndex, step1Image, step2Image, step3Image,
          step4Image, completedSteps, events, controllerCalls,
          unread, pending, buffer, dispatched>>

fillVars == <<bgCount, bg, queue, visited, mask, cleanMask>>
applyVars == <<maskIn, maskPixels, ai, outputPixels>>
greenVars == <<tolerance>>
rerunVars == <<firstResult>>
clientVars == <<unread, pending, buffer, dispatched>>
pipeVars == <<step1Items, itemIndex, step1Image, step2Image, step3Image,
              step4Image, completedSteps, events, controllerCalls>>

NoResult == [kind |-> "none", px |-> <<>>]
NoMask == [kind |-> "none", px |-> <<>>]

\* the caller passed bytes that do not decode
InputBad == input = Bad

\* the caller passed a small image of at most two palette colours
InputSmall ==
    \E d \in SmallDims : \E cp \in ColourPairs : \E f \in [1..(d[1] * d[2]) -> cp] :
        input = Img("small", d[1], d[2], f, NoRect)

\* the caller passed an image of one colour
InputUniform ==
    \E w \in 1..MaxRectDim, h \in 1..MaxRectDim, c \in Palette :
        input = Img("uniform", w, h, [p \in 1..(w * h) |-> c], NoRect)

\* the caller passed a rectangle on a uniform background
InputRect ==
    \E w \in (MaxRectDim - 1)..MaxRectDim, h \in (MaxRectDim - 1)..MaxRectDim :
        \E r \in Rects(w, h), bgc \in RectBackgrounds, fgc \in RectColours :
            input = Img("rect", w, h, RectPixels(w, h, r, bgc, fgc), r)

\* the caller passed a small image of a probe colour and a second colour
InputSkin ==
    \E d \in SmallDims : \E a \in Palette \cup SkinProbe, b \in {Red, White} :
        \E f \in [1..(d[1] * d[2]) -> {a, b}] :
            /\ d[1] * d[2] <= MaxSkinPixels
            /\ input = Img("skin", d[1], d[2], f, NoRect)

\* Images for the cleanup passes, one row more than twice the margin high:
\* row y is of the ground colour left of the cut f[y] and Red from it on.
\* A White ground is flood-filled from the left edge, a Skin ground is
\* removed by the skin phase; the "split" ground is White in the columns
\* left of column 3 and Skin from there on.
MorphHeight == 2 * morphMargin + 1
MorphCuts(w) == {0, 2, 3, 4, w}
Grounds == {"white", "skin", "split"}

groundColour(ground, x) ==
    IF ground = "white" \/ (ground = "split" /\ x < 3) THEN White ELSE Skin

MorphPixels(w, f, ground) ==
    [p \in 1..(w * MorphHeight) |->
        IF XOf(p, w) >= f[YOf(p, w) + 1] THEN Red ELSE groundColour(ground, XOf(p, w))]

InputMorph ==
    \E w \in 6..MaxMorphWidth, ground \in Grounds :
        \E f \in [1..MorphHeight -> MorphCuts(w)] :
            input = Img("morph", w, MorphHeight, MorphPixels(w, f, ground), NoRect)

\* Images for the order of the hole pass, MorphHeight high: Red except for
\* Skin pixels, which the skin phase removes: the top n0, n1, n4 and n5
\* pixels of columns 0, 1, 4 and 5 (in columns 1 and 4 the centre row is
\* passed over) and those of the two centre-row pixels (2,2), (3,2) named by
\* pair
HolePairs == {<<TRUE, TRUE>>, <<TRUE, FALSE>>, <<FALSE, TRUE>>}

holeSkin(x, y, n, pair) ==
    \/ x = 0 /\ y < n[1]
    \/ x = 1 /\ y # morphMargin /\ (IF y < morphMargin THEN y ELSE y - 1) < n[2]
    \/ x = 4 /\ y # morphMargin /\ (IF y < morphMargin THEN y ELSE y - 1) < n[3]
    \/ x = 5 /\ y < n[4]
    \/ y = morphMargin /\ ((x = 2 /\ pair[1]) \/ (x = 3 /\ pair[2]))

HolePixels(w, n, pair) ==
    [p \in 1..(w * MorphHeight) |->
        IF holeSkin(XOf(p, w), YOf(p, w), n, pair) THEN Skin ELSE Red]

InputHoles ==
    \E w \in 6..MaxMorphWidth, pair \in HolePairs :
        \E n \in {0, MorphHeight} \X (0..(MorphHeight - 1)) \X (0..(MorphHeight - 1))
                 \X (0..MorphHeight) :
            input = Img("holes", w, MorphHeight, HolePixels(w, n, pair), NoRect)

\* Images for the anti-alias pass: the pixels off the border all have the
\* colour centre, each side of the border (without its corners) has one
\* colour, the four corners have one colour.  Clear is a dark pixel that is
\* transparent in the input already.
Clear == <<10, 20, 30, 0>>
FeatherCentres ==
    { Red, White, Skin, Clear, <<200, 30, 30, 45>>, <<200, 30, 30, 85>>,
      <<200, 30, 30, 1>>, <<200, 30, 30, 2>> }
FeatherSides == {White, Red, Clear}

FeatherPixels(w, h, centre, side, corner) ==
    [p \in 1..(w * h) |->
        LET x == XOf(p, w)
            y == YOf(p, w)
        IN  IF (x = 0 \/ x = w - 1) /\ (y = 0 \/ y = h - 1) THEN corner
            ELSE IF y = 0 THEN side[1]
            ELSE IF y = h - 1 THEN side[2]
            ELSE IF x = 0 THEN side[3]
            ELSE IF x = w - 1 THEN side[4]
            ELSE centre]

InputFeather ==
    \E w \in 3..MaxFeatherDim, h \in 3..MaxFeatherDim :
        \E centre \in FeatherCentres, corner \in {White, Red} :
            \E side \in [1..4 -> FeatherSides] :
                input = Img("feather", w, h, FeatherPixels(w, h, centre, side, corner), NoRect)

InitCommon ==
    /\ pc = (IF op = "process" THEN (IF input.kind = "excel" THEN "read" ELSE "item")
                                 ELSE "start")
    /\ width = 0 /\ height = 0 /\ pixels = <<>>
    /\ bgCount = 0 /\ bg = <<0, 0, 0>>
    /\ queue = <<>> /\ visited = <<>> /\ mask = <<>> /\ cleanMask = <<>>
    /\ result = NoResult
    /\ firstResult = NoResult
    /\ ai = 0 /\ maskPixels = <<>> /\ outputPixels = <<>>
    /\ itemIndex = 0 /\ completedSteps = 0 /\ events = <<>> /\ controllerCalls = <<>>
    /\ pending = <<>> /\ buffer = <<>> /\ dispatched = <<>>
    /\ (op = "sse" \/ unread = <<>>)
    /\ step1Image = "" /\ step2Image = "" /\ step3Image = "" /\ step4Image = ""
    /\ (op = "process" \/ step1Items = <<>>)

InitFill == InitCommon /\ maskIn = NoMask /\ tolerance = greenDefaultTolerance

InitMask ==
    /\ op = "mask"
    /\ (InputSmall \/ InputUniform \/ InputBad)
    /\ threshold = bgThreshold
    /\ InitFill

InitRect ==
    /\ op = "mask"
    /\ InputRect
    /\ threshold = bgThreshold
    /\ InitFill

InitSkin ==
    /\ op = "mask"
    /\ InputSkin
    /\ threshold = bgThreshold
    /\ InitFill

InitMorph ==
    /\ op = "mask"
    /\ InputMorph
    /\ threshold = bgThreshold
    /\ InitFill

InitHoles ==
    /\ op = "mask"
    /\ InputHoles
    /\ threshold = bgThreshold
    /\ InitFill

InitFeather ==
    /\ op = "rwb"
    /\ InputFeather
    /\ threshold = rwbThreshold
    /\ InitFill

InitRwb ==
    /\ op = "rwb"
    /\ (InputSmall \/ InputUniform \/ InputBad)
    /\ threshold = rwbThreshold
    /\ InitFill

(***************************************************************************)
(* createCodeBasedClothingMask                                             *)
(***************************************************************************)
\* mutant: the catch block returns the input, as the other functions do
MaskFailure_ReturnsInput(img) == [kind |-> "original", px |-> img.px]

\* catch (error) { console.error(...); throw error; }
MaskFailure(img) == [kind |-> "error", px |-> <<>>]

\* sharp(inputBuffer).ensureAlpha().raw().toBuffer(); a failure is caught,
\* logged and thrown again
MaskDecode ==
    /\ op = "mask" /\ pc = "start"
    /\ IF input.kind = "bad"
       THEN /\ pc' = "thrown"
            /\ result' = MaskFailure(input)
            /\ UNCHANGED <<width, height, pixels, mask>>
       ELSE /\ pc' = "sample"
            /\ width' = input.w /\ height' = input.h /\ pixels' = input.px
            /\ mask' = [p \in 1..(input.w * input.h) |-> 255]
            /\ UNCHANGED result
    /\ UNCHANGED <<op, input, threshold, bgCount, bg, queue, visited, cleanMask>>
    /\ UNCHANGED applyVars
    /\ UNCHANGED greenVars
    /\ UNCHANGED rerunVars
    /\ UNCHANGED pipeVars
    /\ UNCHANGED clientVars

\* the anchor loop and the estimate, with the default when no anchor qualifies
MaskEstimate(acc) == IF acc[4] > 0 THEN MeanOf(acc) ELSE <<defaultBg, defaultBg, defaultBg>>

MaskSample ==
    /\ op = "mask" /\ pc = "sample"
    /\ LET acc == SampleLoop(pixels, width, height, FALSE, 1, <<0, 0, 0, 0>>)
       IN  /\ bgCount' = acc[4]
           /\ bg' = MaskEstimate(acc)
    /\ pc' = "seed"
    /\ UNCHANGED <<op, input, threshold, width, height, pixels, queue, visited, mask,
                   cleanMask, result>>
    /\ UNCHANGED applyVars
    /\ UNCHANGED greenVars
    /\ UNCHANGED rerunVars
    /\ UNCHANGED pipeVars
    /\ UNCHANGED clientVars

MaskSeed ==
    /\ op = "mask" /\ pc = "seed"
    /\ LET fs == SeedEdges(SimMap(pixels, FALSE, bg, bgThreshold), width, height)
       IN  queue' = fs.queue /\ visited' = fs.visited
    /\ pc' = "fill"
    /\ UNCHANGED <<op, input, threshold, width, height, pixels, bgCount, bg, mask,
                   cleanMask, result>>
    /\ UNCHANGED applyVars
    /\ UNCHANGED greenVars
    /\ UNCHANGED rerunVars
    /\ UNCHANGED pipeVars
    /\ UNCHANGED clientVars

\* mask[pixIdx(x, y)] = 0 at every dequeued pair
MaskOf(marked) == [p \in 1..Len(marked) |-> IF marked[p] = 1 THEN 0 ELSE 255]

MaskFlood ==
    /\ op = "mask" /\ pc = "fill"
    /\ LET fl == FloodFill([queue |-> queue, visited |-> visited],
                           SimMap(pixels, FALSE, bg, bgThreshold), width, height)
       IN  /\ queue' = fl.queue /\ visited' = fl.visited
           /\ mask' = MaskOf(fl.marked)
    /\ pc' = "skin"
    /\ UNCHANGED <<op, input, threshold, width, height, pixels, bgCount, bg,
                   cleanMask, result>>
    /\ UNCHANGED applyVars
    /\ UNCHANGED greenVars
    /\ UNCHANGED rerunVars
    /\ UNCHANGED pipeVars
    /\ UNCHANGED clientVars

MaskSkin ==
    /\ op = "mask" /\ pc = "skin"
    /\ mask' = SkinPass(pixels, mask)
    /\ pc' = "noise"
    /\ UNCHANGED <<op, input, threshold, width, height, pixels, bgCount, bg, queue,
                   visited, cleanMask, result>>
    /\ UNCHANGED applyVars
    /\ UNCHANGED greenVars
    /\ UNCHANGED rerunVars
    /\ UNCHANGED pipeVars
    /\ UNCHANGED clientVars

MaskNoise ==
    /\ op = "mask" /\ pc = "noise"
    /\ cleanMask' = NoisePass(mask, width, height)
    /\ pc' = "holes"
    /\ UNCHANGED <<op, input, threshold, width, height, pixels, bgCount, bg, queue,
                   visited, mask, result>>
    /\ UNCHANGED applyVars
    /\ UNCHANGED greenVars
    /\ UNCHANGED rerunVars
    /\ UNCHANGED pipeVars
    /\ UNCHANGED clientVars

\* hole filling, then the mask image is encoded and returned
MaskHoles ==
    /\ op = "mask" /\ pc = "holes"
    /\ cleanMask' = HolePass(cleanMask, visited, width, height)
    /\ result' = [kind |-> "mask", px |-> MaskImage(cleanMask')]
    /\ pc' = "done"
    /\ UNCHANGED <<op, input, threshold, width, height, pixels, bgCount, bg, queue,
                   visited, mask>>
    /\ UNCHANGED applyVars
    /\ UNCHANGED greenVars
    /\ UNCHANGED rerunVars
    /\ UNCHANGED pipeVars
    /\ UNCHANGED clientVars

NextMask ==
    \/ MaskDecode \/ MaskSample \/ MaskSeed \/ MaskFlood
    \/ MaskSkin \/ MaskNoise \/ MaskHoles

(***************************************************************************)
(* removeWhiteBackground                                                   *)
(***************************************************************************)
\* a decode failure is caught and the input string is returned
RwbDecode ==
    /\ op = "rwb" /\ pc = "start"
    /\ IF input.kind = "bad"
       THEN /\ pc' = "done"
            /\ result' = [kind |-> "original", px |-> input.px]
            /\ UNCHANGED <<width, height, pixels>>
       ELSE /\ pc' = "sample"
            /\ width' = input.w /\ height' = input.h /\ pixels' = input.px
            /\ UNCHANGED result
    /\ UNCHANGED <<op, input, threshold>>
    /\ UNCHANGED fillVars
    /\ UNCHANGED applyVars
    /\ UNCHANGED greenVars
    /\ UNCHANGED rerunVars
    /\ UNCHANGED pipeVars
    /\ UNCHANGED clientVars

\* the anchor loop; with no qualifying anchor the input string is returned
RwbSample ==
    /\ op = "rwb" /\ pc = "sample"
    /\ LET acc == SampleLoop(pixels, width, height, TRUE, 1, <<0, 0, 0, 0>>)
       IN  /\ bgCount' = acc[4]
           /\ IF acc[4] = 0
              THEN /\ pc' = "done"
                   /\ result' = [kind |-> "original", px |-> input.px]
                   /\ UNCHANGED bg
              ELSE /\ pc' = "seed"
                   /\ bg' = MeanOf(acc)
                   /\ UNCHANGED result
    /\ UNCHANGED <<op, input, threshold, width, height, pixels, queue, visited, mask,
                   cleanMask>>
    /\ UNCHANGED applyVars
    /\ UNCHANGED greenVars
    /\ UNCHANGED rerunVars
    /\ UNCHANGED pipeVars
    /\ UNCHANGED clientVars

RwbSeed ==
    /\ op = "rwb" /\ pc = "seed"
    /\ LET fs == SeedEdges(SimMap(pixels, TRUE, bg, threshold), width, height)
       IN  queue' = fs.queue /\ visited' = fs.visited
    /\ pc' = "fill"
    /\ UNCHANGED <<op, input, threshold, width, height, pixels, bgCount, bg, mask,
                   cleanMask, result>>
    /\ UNCHANGED applyVars
    /\ UNCHANGED greenVars
    /\ UNCHANGED rerunVars
    /\ UNCHANGED pipeVars
    /\ UNCHANGED clientVars

\* pixels[pi + 3] = 0 at every dequeued pair
RwbFlood ==
    /\ op = "rwb" /\ pc = "fill"
    /\ LET fl == FloodFill([queue |-> queue, visited |-> visited],
                           SimMap(pixels, TRUE, bg, threshold), width, height)
       IN  /\ queue' = fl.queue /\ visited' = fl.visited
           /\ pixels' = ClearMarked(pixels, fl.marked)
    /\ pc' = "antialias"
    /\ UNCHANGED <<op, input, threshold, width, height, bgCount, bg, mask,
                   cleanMask, result>>
    /\ UNCHANGED applyVars
    /\ UNCHANGED greenVars
    /\ UNCHANGED rerunVars
    /\ UNCHANGED pipeVars
    /\ UNCHANGED clientVars

\* the anti-alias pass; the output is encoded and returned
RwbAntiAlias ==
    /\ op = "rwb" /\ pc = "antialias"
    /\ result' = [kind |-> "png", px |-> AntiAlias(pixels, width, height)]
    /\ pc' = "done"
    /\ UNCHANGED <<op, input, threshold, width, height, pixels>>
    /\ UNCHANGED fillVars
    /\ UNCHANGED applyVars
    /\ UNCHANGED greenVars
    /\ UNCHANGED rerunVars
    /\ UNCHANGED pipeVars
    /\ UNCHANGED clientVars

NextRwb == RwbDecode \/ RwbSample \/ RwbSeed \/ RwbFlood \/ RwbAntiAlias

\* the caller passes the PNG a first call returned to a second call of
\* removeWhiteBackground, with the same threshold
RwbRerun ==
    /\ op = "rwb" /\ pc = "done" /\ result.kind = "png" /\ firstResult = NoResult
    /\ firstResult' = result
    /\ input' = Img("again", width, height, result.px, NoRect)
    /\ pc' = "start"
    /\ width' = 0 /\ height' = 0 /\ pixels' = <<>>
    /\ bgCount' = 0 /\ bg' = <<0, 0, 0>>
    /\ queue' = <<>> /\ visited' = <<>>
    /\ result' = NoResult
    /\ UNCHANGED <<op, threshold, mask, cleanMask>>
    /\ UNCHANGED applyVars
    /\ UNCHANGED greenVars
    /\ UNCHANGED pipeVars
    /\ UNCHANGED clientVars

SpecMask == InitMask /\ [][NextMask]_vars
SpecRect == InitRect /\ [][NextMask]_vars
SpecRwb == InitRwb /\ [][NextRwb]_vars
SpecFill == (InitMask \/ InitRwb) /\ [][NextMask \/ NextRwb]_vars
SpecSkin == InitSkin /\ [][NextMask]_vars
SpecMorph == InitMorph /\ [][NextMask]_vars
SpecHoles == InitHoles /\ [][NextMask]_vars
SpecFeather == InitFeather /\ [][NextRwb \/ RwbRerun]_vars

(***************************************************************************)
(* applyMaskToImage.  sharp resizes the mask to the original's size, turns *)
(* it to grayscale, blurs it and adds an alpha channel; the loop then sees *)
(* one mask pixel <<g, g, g, a>> per pixel of the original.  maskIn.px is  *)
(* the mask as sharp hands it over.  A mask passed in all white and opaque *)
(* ("white") or all black ("black") stays so through resize, grayscale and *)
(* blur; a "ramp" mask has the brightness g0, g0 + 1, ... (mod 256), so    *)
(* that over all g0 every brightness meets every threshold.                *)
(***************************************************************************)
Thresholds == {0, 29, 30, 31, applyDefaultThreshold, 225, 226, 255}

OrigPalette == <<Red, Skin, <<10, 20, 30, 0>>, <<10, 20, 30, 3>>, <<10, 20, 30, 254>>>>

\* an original whose pixel i is the palette entry o0 + i (cyclically)
OrigPixels(n, o0) ==
    [i \in 1..n |-> OrigPalette[((o0 + i - 1) % Len(OrigPalette)) + 1]]

RampPixels(n, g0, a) ==
    [i \in 1..n |-> <<(g0 + i - 1) % 256, (g0 + i - 1) % 256, (g0 + i - 1) % 256, a>>]

UniformMask(n, g, a) == [i \in 1..n |-> <<g, g, g, a>>]

ApplyDims == {d \in (1..MaxApplyPixels) \X (1..MaxApplyPixels) : d[1] * d[2] <= MaxApplyPixels}

\* Math.round((maskBrightness / 255) * (maskAlpha / 255) * 255)
effectiveBrightness(mp) == RoundDiv(mp[1] * mp[4], 255)

\* mutant: the ramp spans half the band
edgeAlpha_HalfBand(b, t) == RoundDiv(17 * (b - (t - edgeBand)), 2)

\* mutant: the ramp falls as the mask gets brighter
edgeAlpha_Falling(b, t) == RoundDiv(17 * ((t + edgeBand) - b), 4)

\* Math.round(((b - (t - 30)) / 60) * 255), for b >= t - 30
edgeAlpha(b, t) == RoundDiv(17 * (b - (t - edgeBand)), 4)

\* mutant: the ramp zone writes edgeAlpha without the min against the original
applyPixel_NoMin(o, mp, t) ==
    IF effectiveBrightness(mp) > t + edgeBand THEN o
    ELSE IF effectiveBrightness(mp) < t - edgeBand THEN <<o[1], o[2], o[3], 0>>
    ELSE <<o[1], o[2], o[3], Max2(0, edgeAlpha(effectiveBrightness(mp), t))>>

\* mutant: mask polarity inverted (dark keeps, bright removes)
applyPixel_Inverted(o, mp, t) ==
    IF effectiveBrightness(mp) < t - edgeBand THEN o
    ELSE IF effectiveBrightness(mp) > t + edgeBand THEN <<o[1], o[2], o[3], 0>>
    ELSE <<o[1], o[2], o[3],
           Min2(o[4], Max2(0, edgeAlpha(effectiveBrightness(mp), t)))>>

\* mutant: the background zone forgets to write alpha
applyPixel_NoClear(o, mp, t) ==
    IF effectiveBrightness(mp) > t + edgeBand THEN o
    ELSE IF effectiveBrightness(mp) < t - edgeBand THEN o
    ELSE <<o[1], o[2], o[3],
           Min2(o[4], Max2(0, edgeAlpha(effectiveBrightness(mp), t)))>>

\* the body of the pixel loop: the output pixel for original o, mask pixel mp
applyPixel(o, mp, t) ==
    IF effectiveBrightness(mp) > t + edgeBand THEN o
    ELSE IF effectiveBrightness(mp) < t - edgeBand THEN <<o[1], o[2], o[3], 0>>
    ELSE <<o[1], o[2], o[3],
           Min2(o[4], Max2(0, edgeAlpha(effectiveBrightness(mp), t)))>>

InitApply ==
    /\ op = "apply"
    /\ threshold \in Thresholds
    /\ \E d \in ApplyDims :
         /\ \/ input = Bad
            \/ \E o0 \in 1..Len(OrigPalette) :
                  input = Img("orig", d[1], d[2], OrigPixels(d[1] * d[2], o0), NoRect)
         /\ \/ maskIn = [kind |-> "bad", px |-> <<>>]
            \/ maskIn = [kind |-> "white", px |-> UniformMask(d[1] * d[2], 255, 255)]
            \/ \E a \in {0, 255} :
                  maskIn = [kind |-> "black", px |-> UniformMask(d[1] * d[2], 0, a)]
            \/ \E g0 \in 0..255 :
                  maskIn = [kind |-> "ramp", px |-> RampPixels(d[1] * d[2], g0, 255)]
            \/ \E g0 \in {0, 1, 128, 255}, a \in {0, 128} :
                  maskIn = [kind |-> "ramp", px |-> RampPixels(d[1] * d[2], g0, a)]
    /\ InitCommon
    /\ tolerance = greenDefaultTolerance

\* mutant: the catch block throws the error again
ApplyFailure_Throws(img) == [kind |-> "error", px |-> <<>>]

\* catch (error) { console.error(...); return originalBase64; }
ApplyFailure(img) == [kind |-> "original", px |-> img.px]

\* metadata and both decodes; any failure is caught and the original string
\* is returned
ApplyDecode ==
    /\ op = "apply" /\ pc = "start"
    /\ IF input.kind = "bad" \/ maskIn.kind = "bad"
       THEN /\ pc' = "done"
            /\ result' = ApplyFailure(input)
            /\ UNCHANGED <<width, height, pixels, maskPixels, outputPixels>>
       ELSE /\ pc' = "loop"
            /\ width' = input.w /\ height' = input.h
            /\ pixels' = input.px
            /\ maskPixels' = maskIn.px
            /\ outputPixels' = input.px
            /\ UNCHANGED result
    /\ UNCHANGED <<op, input, threshold, maskIn, ai>>
    /\ UNCHANGED fillVars
    /\ UNCHANGED greenVars
    /\ UNCHANGED rerunVars
    /\ UNCHANGED pipeVars
    /\ UNCHANGED clientVars

\* one iteration of for (i = 0; i < info.width * info.height; i++)
ApplyStep ==
    /\ op = "apply" /\ pc = "loop" /\ ai < width * height
    /\ outputPixels' = [outputPixels EXCEPT
           ![ai + 1] = applyPixel(outputPixels[ai + 1], maskPixels[ai + 1], threshold)]
    /\ ai' = ai + 1
    /\ UNCHANGED <<op, pc, input, threshold, width, height, pixels, maskIn,
                   maskPixels, result>>
    /\ UNCHANGED fillVars
    /\ UNCHANGED greenVars
    /\ UNCHANGED rerunVars
    /\ UNCHANGED pipeVars
    /\ UNCHANGED clientVars

\* the loop is over: outputPixels, info.width x info.height, is encoded
ApplyEmit ==
    /\ op = "apply" /\ pc = "loop" /\ ai = width * height
    /\ result' = [kind |-> "png", px |-> outputPixels]
    /\ pc' = "done"
    /\ UNCHANGED <<op, input, threshold, width, height, pixels, maskIn, maskPixels,
                   ai, outputPixels>>
    /\ UNCHANGED fillVars
    /\ UNCHANGED greenVars
    /\ UNCHANGED rerunVars
    /\ UNCHANGED pipeVars
    /\ UNCHANGED clientVars

\* sharp rejects the encoding of the output: the catch block returns the
\* original string
ApplyEmitFails ==
    /\ op = "apply" /\ pc = "loop" /\ ai = width * height
    /\ result' = ApplyFailure(input)
    /\ pc' = "done"
    /\ UNCHANGED <<op, input, threshold, width, height, pixels, maskIn, maskPixels,
                   ai, outputPixels>>
    /\ UNCHANGED fillVars
    /\ UNCHANGED greenVars
    /\ UNCHANGED rerunVars
    /\ UNCHANGED pipeVars
    /\ UNCHANGED clientVars

NextApply == ApplyDecode \/ ApplyStep \/ ApplyEmit \/ ApplyEmitFails

SpecApply == InitApply /\ [][NextApply]_vars

\* Images for the order of the output alphas: every pixel of the original
\* is the same palette entry, the mask is a ramp of consecutive greys
InitRamp ==
    /\ op = "apply"
    /\ threshold \in Thresholds
    /\ \E d \in ApplyDims : \E o \in 1..Len(OrigPalette) :
       \E g0 \in 0..255, a \in {128, 255} :
          /\ d[1] * d[2] >= 2
          /\ input = Img("orig", d[1], d[2], [i \in 1..(d[1] * d[2]) |-> OrigPalette[o]],
                         NoRect)
          /\ maskIn = [kind |-> "ramp", px |-> RampPixels(d[1] * d[2], g0, a)]
    /\ tolerance = greenDefaultTolerance
    /\ InitCommon

SpecRamp == InitRamp /\ [][NextApply]_vars

(***************************************************************************)
(* removeGreenBackground (op = "green").                                   *)
(***************************************************************************)
\* colours at and around the bounds of isGreen and isLimeGreen
GreenPalette ==
    << <<0, 255, 0, 255>>, <<0, 255, 0, 0>>, <<255, 0, 0, 200>>, <<255, 0, 0, 0>>,
       <<100, 151, 100, 255>>, <<100, 150, 100, 255>>, <<101, 151, 100, 9>>,
       <<149, 201, 149, 255>>, <<150, 201, 150, 255>>, <<170, 201, 170, 128>>,
       <<171, 201, 171, 128>>, <<199, 255, 199, 255>>, <<200, 255, 200, 255>>,
       <<170, 200, 100, 255>>, <<100, 201, 170, 255>>, <<100, 201, 171, 77>> >>

Tolerances == {0, greenDefaultTolerance, 255}

GreenDims == {d \in (1..MaxGreenPixels) \X (1..MaxGreenPixels) : d[1] * d[2] <= MaxGreenPixels}

isGreen(px) ==
    /\ px[2] > 150
    /\ px[2] > px[1] + 50
    /\ px[2] > px[3] + 50
    /\ px[1] < 150
    /\ px[3] < 150

isLimeGreen(px) ==
    /\ px[2] > 200
    /\ px[1] < 200
    /\ px[3] < 200
    /\ px[2] - px[1] > 30
    /\ px[2] - px[3] > 30

\* mutant: the lime test is left out
greenPixel_OnlyIsGreen(px, tol) ==
    IF isGreen(px) THEN <<px[1], px[2], px[3], 0>> ELSE px

\* mutant: the green floor follows the tolerance
greenPixel_UsesTolerance(px, tol) ==
    IF (isGreen(px) \/ isLimeGreen(px)) /\ px[2] >= 255 - tol
    THEN <<px[1], px[2], px[3], 0>> ELSE px

\* the body of the pixel loop, in a call with tolerance tol
greenPixel(px, tol) ==
    IF isGreen(px) \/ isLimeGreen(px) THEN <<px[1], px[2], px[3], 0>> ELSE px

InitGreen ==
    /\ op = "green"
    /\ tolerance \in Tolerances
    /\ \/ input = Bad
       \/ \E d \in GreenDims : \E f \in [1..(d[1] * d[2]) -> 1..Len(GreenPalette)] :
             input = Img("green", d[1], d[2],
                         [p \in 1..(d[1] * d[2]) |-> GreenPalette[f[p]]], NoRect)
    /\ threshold = 0
    /\ InitCommon /\ maskIn = NoMask

\* a decode failure is caught and the input string is returned
GreenDecode ==
    /\ op = "green" /\ pc = "start"
    /\ IF input.kind = "bad"
       THEN /\ pc' = "done"
            /\ result' = [kind |-> "original", px |-> input.px]
            /\ UNCHANGED <<width, height, pixels>>
       ELSE /\ pc' = "loop"
            /\ width' = input.w /\ height' = input.h /\ pixels' = input.px
            /\ UNCHANGED result
    /\ UNCHANGED <<op, input, threshold>>
    /\ UNCHANGED fillVars
    /\ UNCHANGED applyVars
    /\ UNCHANGED greenVars
    /\ UNCHANGED rerunVars
    /\ UNCHANGED pipeVars
    /\ UNCHANGED clientVars

\* for (let i = 0; i < pixels.length; i += 4): alpha of the green pixels
GreenLoop ==
    /\ op = "green" /\ pc = "loop"
    /\ pixels' = [p \in 1..Len(pixels) |-> greenPixel(pixels[p], tolerance)]
    /\ pc' = "emit"
    /\ UNCHANGED <<op, input, threshold, width, height, result>>
    /\ UNCHANGED fillVars
    /\ UNCHANGED applyVars
    /\ UNCHANGED greenVars
    /\ UNCHANGED rerunVars
    /\ UNCHANGED pipeVars
    /\ UNCHANGED clientVars

\* the buffer is encoded as a PNG of info.width x info.height and returned
GreenEmit ==
    /\ op = "green" /\ pc = "emit"
    /\ result' = [kind |-> "png", px |-> pixels]
    /\ pc' = "done"
    /\ UNCHANGED <<op, input, threshold, width, height, pixels>>
    /\ UNCHANGED fillVars
    /\ UNCHANGED applyVars
    /\ UNCHANGED greenVars
    /\ UNCHANGED rerunVars
    /\ UNCHANGED pipeVars
    /\ UNCHANGED clientVars

NextGreen == GreenDecode \/ GreenLoop \/ GreenEmit

SpecGreen == InitGreen /\ [][NextGreen]_vars

(***************************************************************************)
(* POST /api/process: the item loop of the five-step pipeline.  The model  *)
(* starts where the loop starts: the spreadsheet has been read and holds   *)
(* at least one item.  An item records which of its prompts and save path  *)
(* exist; an image is "" or a non-empty string.  Every call that can throw *)
(* (a collaborator, saveBase64Image, ensureDir) either returns or throws.  *)
(***************************************************************************)
MaxItems == 2
stepsPerItem == 5

Item(p2, p3, p4, d5) ==
    [step2Prompt |-> p2, step3Prompt |-> p3, step4Prompt |-> p4, step5Data |-> d5]

\* all prompts; none; no mask prompt; no extraction prompt; no save path
ItemKinds ==
    {Item(TRUE, TRUE, TRUE, TRUE), Item(FALSE, FALSE, FALSE, FALSE),
     Item(TRUE, FALSE, TRUE, TRUE), Item(TRUE, TRUE, FALSE, TRUE),
     Item(TRUE, TRUE, TRUE, FALSE)}

\* an event with a progress field; the field holds totalItems times the
\* value sent, which keeps 10 + (completedSteps / (totalItems * 5)) * 85 whole
EvP(type, idx, stp, prog) ==
    [type |-> type, itemIndex |-> idx, step |-> stp, progress |-> prog]

\* an event without a progress field
Ev(type, idx, stp) == EvP(type, idx, stp, -1)

totalItems == Len(step1Items)

progressAt(completed) == 10 * totalItems + 17 * completed

doneEvent == EvP("done", -1, 0, 100 * totalItems)

send(evs, ev) == Append(evs, ev)

item == step1Items[itemIndex + 1]

InitProcess ==
    /\ op = "process"
    /\ \E n \in 1..MaxItems : step1Items \in [1..n -> ItemKinds]
    /\ input = Bad /\ threshold = 0
    /\ InitCommon /\ maskIn = NoMask /\ tolerance = greenDefaultTolerance

processFrame == UNCHANGED <<input, op, threshold, width, height, pixels, result,
                           fillVars, applyVars, greenVars, rerunVars, step1Items,
                           clientVars>>

\* the loop index after the catch block of item idx
afterItemError_LeavesLoop(idx) == Len(step1Items)

afterItemError(idx) == idx + 1

\* a call inside the item's try block threw after step stp had sent its
\* step_start: the catch block sends item_error and the loop goes on
ItemThrows(stp) ==
    /\ completedSteps' = completedSteps + stepsPerItem
    /\ events' = send(send(events, Ev("step_start", itemIndex, stp)),
                      EvP("item_error", itemIndex, 0,
                          progressAt(completedSteps + stepsPerItem)))
    /\ itemIndex' = afterItemError(itemIndex)
    /\ pc' = "item"
    /\ UNCHANGED <<step1Image, step2Image, step3Image, step4Image>>

\* mutant: step_complete is sent before the step's step_start
StepCompletes_CompleteFirst(stp) ==
    /\ completedSteps' = completedSteps + 1
    /\ events' = send(send(events, EvP("step_complete", itemIndex, stp,
                                       progressAt(completedSteps + 1))),
                      Ev("step_start", itemIndex, stp))

\* the call of step stp returned: step_start, then step_complete
StepCompletes(stp) ==
    /\ completedSteps' = completedSteps + 1
    /\ events' = send(send(events, Ev("step_start", itemIndex, stp)),
                      EvP("step_complete", itemIndex, stp,
                          progressAt(completedSteps + 1)))

StepSkips(stp) ==
    /\ completedSteps' = completedSteps + 1
    /\ events' = send(events, Ev("step_skip", itemIndex, stp))

\* send is controller.enqueue: one call for each event the step sent
enqueued == [k \in 1..(Len(events') - Len(events)) |-> "enqueue"]

\* top of the loop body: ensureDir, item_start, the four images reset
ProcessItemStart ==
    /\ op = "process" /\ pc = "item" /\ itemIndex < Len(step1Items)
    /\ events' = send(events, Ev("item_start", itemIndex, 0))
    /\ step1Image' = "" /\ step2Image' = "" /\ step3Image' = "" /\ step4Image' = ""
    /\ pc' = "step1"
    /\ UNCHANGED <<itemIndex, completedSteps>>
    /\ controllerCalls' = controllerCalls \o enqueued
    /\ processFrame

\* ensureDir is outside the item's try block: the outer catch sends error
\* and the stream is closed
ProcessSetupFails ==
    /\ op = "process" /\ pc = "item" /\ itemIndex < Len(step1Items)
    /\ events' = send(events, Ev("error", -1, 0))
    /\ pc' = "closed"
    /\ UNCHANGED <<itemIndex, completedSteps, step1Image, step2Image, step3Image,
                   step4Image>>
    /\ controllerCalls' = controllerCalls \o enqueued \o <<"close">>
    /\ processFrame

ProcessStep1 ==
    /\ op = "process" /\ pc = "step1"
    /\ \/ /\ StepCompletes(1)
          /\ step1Image' = "img"
          /\ pc' = "step2"
          /\ UNCHANGED <<itemIndex, step2Image, step3Image, step4Image>>
       \/ ItemThrows(1)
    /\ controllerCalls' = controllerCalls \o enqueued
    /\ processFrame

ProcessStep2 ==
    /\ op = "process" /\ pc = "step2"
    /\ IF item.step2Prompt
       THEN \/ /\ StepCompletes(2)
               /\ step2Image' = "img"
               /\ pc' = "step3"
               /\ UNCHANGED <<itemIndex, step1Image, step3Image, step4Image>>
            \/ ItemThrows(2)
       ELSE /\ StepSkips(2)
            /\ step2Image' = step1Image
            /\ pc' = "step3"
            /\ UNCHANGED <<itemIndex, step1Image, step3Image, step4Image>>
    /\ controllerCalls' = controllerCalls \o enqueued
    /\ processFrame

ProcessStep3 ==
    /\ op = "process" /\ pc = "step3"
    /\ IF item.step3Prompt
       THEN \/ /\ StepCompletes(3)
               /\ step3Image' = "img"
               /\ pc' = "step4"
               /\ UNCHANGED <<itemIndex, step1Image, step2Image, step4Image>>
            \/ ItemThrows(3)
       ELSE /\ StepSkips(3)
            /\ pc' = "step4"
            /\ UNCHANGED <<itemIndex, step1Image, step2Image, step3Image, step4Image>>
    /\ controllerCalls' = controllerCalls \o enqueued
    /\ processFrame

ProcessStep4 ==
    /\ op = "process" /\ pc = "step4"
    /\ IF item.step4Prompt /\ step2Image # "" /\ step3Image # ""
       THEN \/ /\ StepCompletes(4)
               /\ step4Image' = "img"
               /\ pc' = "step5"
               /\ UNCHANGED <<itemIndex, step1Image, step2Image, step3Image>>
            \/ ItemThrows(4)
       ELSE /\ StepSkips(4)
            /\ step4Image' = step2Image
            /\ pc' = "step5"
            /\ UNCHANGED <<itemIndex, step1Image, step2Image, step3Image>>
    /\ controllerCalls' = controllerCalls \o enqueued
    /\ processFrame

\* the save step, then item_complete and the loop's i++
ProcessStep5 ==
    /\ op = "process" /\ pc = "step5"
    /\ IF item.step5Data
       THEN \/ /\ completedSteps' = completedSteps + 1
               /\ events' = send(send(send(events,
                                Ev("step_start", itemIndex, 5)),
                                EvP("step_complete", itemIndex, 5,
                                    progressAt(completedSteps + 1))),
                                Ev("item_complete", itemIndex, 0))
               /\ itemIndex' = itemIndex + 1
               /\ pc' = "item"
               /\ UNCHANGED <<step1Image, step2Image, step3Image, step4Image>>
            \/ ItemThrows(5)
       ELSE /\ completedSteps' = completedSteps + 1
            /\ events' = send(send(events, Ev("step_skip", itemIndex, 5)),
                              Ev("item_complete", itemIndex, 0))
            /\ itemIndex' = itemIndex + 1
            /\ pc' = "item"
            /\ UNCHANGED <<step1Image, step2Image, step3Image, step4Image>>
    /\ controllerCalls' = controllerCalls \o enqueued
    /\ processFrame

\* the loop is over: done is sent and the stream is closed
ProcessDone ==
    /\ op = "process" /\ pc = "item" /\ itemIndex >= Len(step1Items)
    /\ events' = send(events, doneEvent)
    /\ pc' = "closed"
    /\ UNCHANGED <<itemIndex, completedSteps, step1Image, step2Image, step3Image,
                   step4Image>>
    /\ controllerCalls' = controllerCalls \o enqueued \o <<"close">>
    /\ processFrame

NextProcess ==
    \/ ProcessItemStart \/ ProcessSetupFails
    \/ ProcessStep1 \/ ProcessStep2 \/ ProcessStep3 \/ ProcessStep4 \/ ProcessStep5
    \/ ProcessDone

SpecProcess == InitProcess /\ [][NextProcess]_vars

(***************************************************************************)
(* POST /api/process from the start of the stream: the spreadsheet is read *)
(* (which may throw), an empty selection ends the request, otherwise the   *)
(* item loop runs.  extras says whether the step 2-5 columns and the       *)
(* reference images were read, each of which sends a progress event.       *)
(***************************************************************************)
Excel(readable, extras) == [kind |-> "excel", readable |-> readable, extras |-> extras]

Progress(value) == EvP("progress", -1, 0, value * totalItems)

RECURSIVE sendAll(_, _)
sendAll(evs, more) ==
    IF more = <<>> THEN evs ELSE sendAll(send(evs, Head(more)), Tail(more))

InitPost ==
    /\ op = "process"
    /\ \E readable \in BOOLEAN, extras \in BOOLEAN : input = Excel(readable, extras)
    /\ \E n \in 0..MaxItems : step1Items \in [1..n -> ItemKinds]
    /\ input.readable \/ (step1Items = <<>> /\ ~input.extras)
    /\ threshold = 0
    /\ InitCommon /\ maskIn = NoMask /\ tolerance = greenDefaultTolerance

postFrame == UNCHANGED <<itemIndex, completedSteps, step1Image, step2Image, step3Image,
                        step4Image>>

\* readColumnData throws on the step-1 column: the outer catch sends error,
\* finally closes the stream
ProcessReadFails ==
    /\ op = "process" /\ pc = "read" /\ ~input.readable
    /\ events' = sendAll(events, <<Progress(0), Ev("error", -1, 0)>>)
    /\ controllerCalls' = controllerCalls \o enqueued \o <<"close">>
    /\ pc' = "closed"
    /\ postFrame /\ processFrame

\* no item is selected: error is sent, the stream is closed, the handler
\* returns, and finally closes the stream
ProcessNoItems ==
    /\ op = "process" /\ pc = "read" /\ input.readable /\ totalItems = 0
    /\ events' = sendAll(events, <<Progress(0), Progress(2), Ev("error", -1, 0)>>)
    /\ controllerCalls' = controllerCalls \o enqueued \o <<"close", "close">>
    /\ pc' = "closed"
    /\ postFrame /\ processFrame

\* the columns and images are read and the loop is entered
ProcessReadItems ==
    /\ op = "process" /\ pc = "read" /\ input.readable /\ totalItems > 0
    /\ events' = sendAll(events,
                    <<Progress(0), Progress(2)>>
                    \o (IF input.extras
                        THEN <<Progress(3), Progress(4), Progress(5), Progress(6),
                               Progress(7), Progress(8)>>
                        ELSE <<>>)
                    \o <<Progress(10)>>)
    /\ controllerCalls' = controllerCalls \o enqueued
    /\ pc' = "item"
    /\ postFrame /\ processFrame

NextPost == ProcessReadFails \/ ProcessNoItems \/ ProcessReadItems \/ NextProcess

SpecPost == InitPost /\ [][NextPost]_vars

(***************************************************************************)
(* Calls of the remaining functions take their arguments in input and      *)
(* leave what they return in result.                                       *)
(***************************************************************************)
callVars == <<threshold, width, height, pixels, fillVars, applyVars, greenVars,
              rerunVars, pipeVars, clientVars>>

InitCall ==
    /\ threshold = 0
    /\ InitCommon /\ maskIn = NoMask /\ tolerance = greenDefaultTolerance

(***************************************************************************)
(* Paths.  A path string is modelled by whether it begins with "/" and by  *)
(* its segments, the pieces between slashes.                               *)
(***************************************************************************)
MaxDirLen == 3
MaxNameLen == 2

Path(abs, segs) == [abs |-> abs, segs |-> segs]

SeqsUpTo(S, n) == UNION {[1..k -> S] : k \in 0..n}

\* path.normalize on the segments of an absolute path: "." is dropped, ".."
\* removes the segment before it, and ".." at the root is dropped
RECURSIVE normalizeFrom(_, _)
normalizeFrom(done, rest) ==
    IF rest = <<>> THEN done
    ELSE LET seg == Head(rest) IN
         IF seg = "." THEN normalizeFrom(done, Tail(rest))
         ELSE IF seg = ".."
              THEN normalizeFrom(IF done = <<>> THEN <<>>
                                 ELSE SubSeq(done, 1, Len(done) - 1), Tail(rest))
              ELSE normalizeFrom(Append(done, seg), Tail(rest))

normalize(segs) == normalizeFrom(<<>>, segs)

\* the normalised path lies inside the /tmp directory tree
InsideTmp(segs) == Len(segs) >= 2 /\ segs[1] = "tmp"

(***************************************************************************)
(* saveBase64Image(base64Data, outputDir, fileName)                        *)
(***************************************************************************)
DirSegs == {"tmp", "tmpfiles", "public", ".", "..", "out"}
NameSegs == {"shirt", "shirt.png", ".."}
Exts == {".png", ".jpg", ".webp"}

\* outputDir.startsWith('/tmp'): a string test, true of /tmpfiles as well
startsWithTmp(dir) ==
    dir.abs /\ dir.segs # <<>> /\ dir.segs[1] \in {"tmp", "tmpfiles"}

\* outputDir.replace(/^\.?\/?public\/?/, ''): the segments that are left
stripPublic(dir) ==
    IF dir.segs # <<>> /\ dir.segs[1] = "public" THEN Tail(dir.segs)
    ELSE IF ~dir.abs /\ Len(dir.segs) >= 2 /\ dir.segs[1] = "." /\ dir.segs[2] = "public"
         THEN Tail(Tail(dir.segs))
         ELSE dir.segs

absoluteDir(dir) ==
    IF startsWithTmp(dir) THEN dir.segs ELSE <<"tmp">> \o stripPublic(dir)

hasDot(seg) == seg \in {".", "..", "shirt.png"}

\* fileName.includes('.') ? fileName : fileName + ext
fullFileName(name, ext) ==
    IF \E k \in 1..Len(name) : hasDot(name[k]) THEN name
    ELSE [name EXCEPT ![Len(name)] = @ \o ext]

\* path.join(absoluteDir, fullFileName)
saveFilePath(dir, name, ext) == normalize(absoluteDir(dir) \o fullFileName(name, ext))

InitSave ==
    /\ op = "save"
    /\ \E abs \in BOOLEAN : \E segs \in SeqsUpTo(DirSegs, MaxDirLen) :
       \E name \in SeqsUpTo(NameSegs, MaxNameLen) \ {<<>>} : \E ext \in Exts :
          input = [kind |-> "save", outputDir |-> Path(abs, segs), fileName |-> name,
                   ext |-> ext]
    /\ InitCall

\* fileName names a file, not a directory (writeFileSync throws on those)
namesFile(name) == name[Len(name)] \notin {".", ".."}

\* mkdirSync and writeFileSync succeed: the file is written and its path returned
SaveWrites ==
    /\ op = "save" /\ pc = "start"
    /\ namesFile(input.fileName)
    /\ result' = [kind |-> "saved", px |-> <<>>,
                  path |-> saveFilePath(input.outputDir, input.fileName, input.ext)]
    /\ pc' = "done"
    /\ UNCHANGED <<op, input, callVars>>

\* mkdirSync or writeFileSync throws: nothing is written
SaveThrows ==
    /\ op = "save" /\ pc = "start"
    /\ result' = [kind |-> "error", px |-> <<>>]
    /\ pc' = "thrown"
    /\ UNCHANGED <<op, input, callVars>>

NextSave == SaveWrites \/ SaveThrows

SpecSave == InitSave /\ [][NextSave]_vars

(***************************************************************************)
(* GET and DELETE of /api/files.  A request carries a path; the file system *)
(* resolves the "." and ".." of the path it is handed.                     *)
(***************************************************************************)
OUTPUT_BASE == Path(TRUE, <<"tmp", "output">>)

NoPath == Path(FALSE, <<>>)

\* absolutePath.startsWith('/tmp') on a path string
pathStartsWithTmp(p) ==
    p.abs /\ p.segs # <<>> /\ p.segs[1] \in {"tmp", "tmpfiles"}

\* path.join('/tmp/output', filePath)
deletePath(filePath) == Path(TRUE, normalize(OUTPUT_BASE.segs \o filePath.segs))

Response(kind, segs) == [kind |-> kind, px |-> <<>>, path |-> segs]

InitFiles ==
    /\ op = "files"
    /\ \E method \in {"GET", "DELETE"} : \E abs \in BOOLEAN :
       \E segs \in SeqsUpTo(DirSegs, MaxDirLen) :
          input = [kind |-> method, path |-> Path(abs, segs)]
    /\ InitCall

\* GET: 403 unless the path string starts with /tmp, else the directory is
\* listed (getFileTree reads it and every image file below it)
FilesGet ==
    /\ op = "files" /\ pc = "start" /\ input.kind = "GET"
    /\ LET basePath == IF input.path = NoPath THEN OUTPUT_BASE ELSE input.path IN
       result' = IF ~pathStartsWithTmp(basePath)
                 THEN Response("403", <<>>)
                 ELSE Response("listed", normalize(basePath.segs))
    /\ pc' = "done"
    /\ UNCHANGED <<op, input, callVars>>

\* DELETE: 400 without a path, 403 unless the joined path starts with /tmp,
\* 404 if nothing is there, else the file or directory is removed (500 if
\* the removal throws)
FilesDelete ==
    /\ op = "files" /\ pc = "start" /\ input.kind = "DELETE"
    /\ LET absolutePath == deletePath(input.path) IN
       \E outcome \in {"404", "deleted", "500"} :
          result' = IF input.path = NoPath THEN Response("400", <<>>)
                    ELSE IF ~pathStartsWithTmp(absolutePath)
                         THEN Response("403", <<>>)
                         ELSE Response(outcome, absolutePath.segs)
    /\ pc' = "done"
    /\ UNCHANGED <<op, input, callVars>>

NextFiles == FilesGet \/ FilesDelete

SpecFiles == InitFiles /\ [][NextFiles]_vars

(***************************************************************************)
(* /api/process reading the spreadsheet.  A column is the sequence of its  *)
(* data rows, TRUE where the cell holds text; a cell's text is identified  *)
(* by the number of its data row (1 = the row under the header).           *)
(***************************************************************************)
MaxRows == 3

NonEmptyCell(r) == r # 0

\* readColumnData: the rows with an empty cell are skipped, the others kept
\* in order
readColumnData(col) ==
    SelectSeq([r \in 1..Len(col) |-> IF col[r] THEN r ELSE 0], NonEmptyCell)

\* step1Items after the row mode is applied: idx + 1 is the position in the
\* list readColumnData returned
selectItems(items, sel) ==
    IF sel.rowMode = "count" /\ sel.rowCount # 0
    THEN SubSeq(items, 1, Min2(sel.rowCount, Len(items)))
    ELSE IF sel.rowMode = "range" /\ sel.rowStart # 0 /\ sel.rowEnd # 0
         THEN SubSeq(items, sel.rowStart, Min2(sel.rowEnd, Len(items)))
         ELSE items

Selection(mode, n, from, to) ==
    [rowMode |-> mode, rowCount |-> n, rowStart |-> from, rowEnd |-> to]

Selections(rows) ==
    {Selection("all", 0, 0, 0)}
    \cup {Selection("count", n, 0, 0) : n \in 1..rows}
    \cup {Selection("range", 0, a, b) : a \in 1..rows, b \in 1..rows}

\* step2Prompts[i] for the item at position i of the list (0: undefined, the
\* step is skipped)
promptAt(prompts, i) == IF i <= Len(prompts) THEN prompts[i] ELSE 0

InitRows ==
    /\ op = "rows"
    /\ \E rows \in 1..MaxRows : \E c1 \in [1..rows -> BOOLEAN], c2 \in [1..rows -> BOOLEAN] :
       \E sel \in Selections(rows) :
          input = [kind |-> "rows", step1Col |-> c1, step2Col |-> c2, sel |-> sel]
    /\ InitCall

\* the columns are read, the row mode applied, and item i is processed with
\* step2Prompts[i]
RowsRead ==
    /\ op = "rows" /\ pc = "start"
    /\ LET items == selectItems(readColumnData(input.step1Col), input.sel)
           step2Prompts == readColumnData(input.step2Col)
       IN  result' = [kind |-> "rows", px |-> <<>>,
                      pairs |-> [i \in 1..Len(items) |->
                                   [item |-> items[i],
                                    step2 |-> promptAt(step2Prompts, i)]]]
    /\ pc' = "done"
    /\ UNCHANGED <<op, input, callVars>>

NextRows == RowsRead

SpecRows == InitRows /\ [][NextRows]_vars

(***************************************************************************)
(* startPipeline reading the response of /api/process.  The response body  *)
(* is a sequence of bytes, of which the model distinguishes: the two halves *)
(* of the prefix "data: ", the JSON text of an event up to its last        *)
(* character, the two bytes c3 a9 of that last character, and the line     *)
(* feed.  reader.read() hands over the next one or more bytes.             *)
(***************************************************************************)
MaxEvents == 3

EventTypes == {"item_start", "done"}

\* send: `data: ${JSON.stringify(data)}\n\n`
eventBytes(type) == <<"da", "ta: ", type, "c3", "a9", "\n", "\n">>

RECURSIVE responseBytes(_)
responseBytes(evs) ==
    IF evs = <<>> THEN <<>> ELSE eventBytes(Head(evs)) \o responseBytes(Tail(evs))

\* decoder.decode(value, { stream: true }): c3 a9 becomes one character; a
\* c3 at the end of the chunk is held back for the next call
RECURSIVE decode(_, _)
decode(bytes, text) ==
    IF bytes = <<>> THEN [text |-> text, pending |-> <<>>]
    ELSE IF Head(bytes) = "c3"
         THEN IF Len(bytes) = 1 THEN [text |-> text, pending |-> bytes]
              ELSE decode(Tail(Tail(bytes)), Append(text, "e-acute"))
         ELSE decode(Tail(bytes), Append(text, Head(bytes)))

\* buffer.split('\n'): the pieces between the line feeds, the last one being
\* what follows the last line feed
RECURSIVE split(_, _, _)
split(text, piece, pieces) ==
    IF text = <<>> THEN Append(pieces, piece)
    ELSE IF Head(text) = "\n"
         THEN split(Tail(text), <<>>, Append(pieces, piece))
         ELSE split(Tail(text), Append(piece, Head(text)), pieces)

\* mutant: the text after the last line feed is thrown away
carriedOver_Dropped(lines) == <<>>

\* buffer = lines.pop() || ''
carriedOver(lines) == lines[Len(lines)]

\* a line that starts with "data: " and whose rest parses is dispatched;
\* any other line is passed over
handled(line) ==
    IF /\ Len(line) >= 2 /\ line[1] = "da" /\ line[2] = "ta: "
       /\ Len(line) = 4 /\ line[3] \in EventTypes /\ line[4] = "e-acute"
    THEN <<line[3]>> ELSE <<>>

RECURSIVE handledAll(_)
handledAll(lines) ==
    IF lines = <<>> THEN <<>> ELSE handled(Head(lines)) \o handledAll(Tail(lines))

InitSse ==
    /\ op = "sse"
    /\ \E n \in 1..MaxEvents : \E evs \in [1..n -> EventTypes] :
          /\ input = [kind |-> "sse", sent |-> evs]
          /\ unread = responseBytes(evs)
    /\ InitCall

sseFrame == UNCHANGED <<op, input, result, threshold, width, height, pixels, fillVars,
                       applyVars, greenVars, rerunVars, pipeVars>>

\* one turn of the loop: a chunk is read, decoded and appended to buffer,
\* the complete lines are handled and the rest is kept in buffer
SseRead ==
    /\ op = "sse" /\ pc = "start" /\ unread # <<>>
    /\ \E n \in 1..Len(unread) :
          LET value == SubSeq(unread, 1, n)
              decoded == decode(pending \o value, <<>>)
              lines == split(buffer \o decoded.text, <<>>, <<>>)
          IN  /\ unread' = SubSeq(unread, n + 1, Len(unread))
              /\ pending' = decoded.pending
              /\ buffer' = carriedOver(lines)
              /\ dispatched' = dispatched \o handledAll(SubSeq(lines, 1, Len(lines) - 1))
    /\ pc' = "start"
    /\ sseFrame

\* reader.read() reports done: the loop is left
SseDone ==
    /\ op = "sse" /\ pc = "start" /\ unread = <<>>
    /\ pc' = "done"
    /\ UNCHANGED clientVars
    /\ sseFrame

NextSse == SseRead \/ SseDone

SpecSse == InitSse /\ [][NextSse]_vars

(***************************************************************************)
(* indexToLetter and letterToIndex.  A letter string is the sequence of    *)
(* its character codes.                                                    *)
(***************************************************************************)
MaxIndex == 702

\* mutant: plain base 26, without the - 1 after the division
indexToLetterFrom_Base26(temp, letter) ==
    LET RECURSIVE digits(_, _)
        digits(t, l) ==
            IF t > 0 \/ l = <<>>
            THEN digits(IF t \div 26 = 0 THEN -1 ELSE t \div 26, <<(t % 26) + 65>> \o l)
            ELSE l
    IN  digits(temp, letter)

\* the while loop of indexToLetter
RECURSIVE indexToLetterFrom(_, _)
indexToLetterFrom(temp, letter) ==
    IF temp >= 0
    THEN indexToLetterFrom((temp \div 26) - 1, <<(temp % 26) + 65>> \o letter)
    ELSE letter

indexToLetter(index) == indexToLetterFrom(index, <<>>)

\* the for loop of letterToIndex from position k on
RECURSIVE letterToIndexFrom(_, _, _)
letterToIndexFrom(letter, k, index) ==
    IF k > Len(letter) THEN index
    ELSE letterToIndexFrom(letter, k + 1, index * 26 + (letter[k] - 64))

letterToIndex(letter) == letterToIndexFrom(letter, 1, 0) - 1

InitLetters ==
    /\ op = "letters"
    /\ \E index \in 0..MaxIndex : input = [kind |-> "index", index |-> index]
    /\ InitCall

\* the index is turned into its letters
LettersOfIndex ==
    /\ op = "letters" /\ pc = "start"
    /\ result' = [kind |-> "letter", px |-> <<>>, letter |-> indexToLetter(input.index)]
    /\ pc' = "letter"
    /\ UNCHANGED <<op, input, callVars>>

\* the letters are turned back into an index
IndexOfLetters ==
    /\ op = "letters" /\ pc = "letter"
    /\ result' = [kind |-> "index", px |-> <<>>, letter |-> result.letter,
                  index |-> letterToIndex(result.letter)]
    /\ pc' = "done"
    /\ UNCHANGED <<op, input, callVars>>

NextLetters == LettersOfIndex \/ IndexOfLetters

SpecLetters == InitLetters /\ [][NextLetters]_vars

Init == InitMask \/ InitRect \/ InitSkin \/ InitMorph \/ InitHoles \/ InitFeather \/ InitRwb
        \/ InitApply \/ InitRamp \/ InitGreen \/ InitProcess \/ InitPost
        \/ InitSave
        \/ InitFiles
        \/ InitRows
        \/ InitSse
        \/ InitLetters
Next == NextMask \/ NextRwb \/ RwbRerun \/ NextApply \/ NextGreen \/ NextPost
        \/ NextSave
        \/ NextFiles
        \/ NextRows
        \/ NextSse
        \/ NextLetters
Spec == Init /\ [][Next]_vars

(***************************************************************************)
(* Properties.                                                             *)
(***************************************************************************)
NPix == width * height

EdgePixels(w, h) ==
    {p \in 1..(w * h) : XOf(p, w) = 0 \/ XOf(p, w) = w - 1 \/ YOf(p, w) = 0 \/ YOf(p, w) = h - 1}

Adjacent(p, q, w) ==
    Abs(XOf(p, w) - XOf(q, w)) + Abs(YOf(p, w) - YOf(q, w)) = 1

\* the least set that holds S and every pixel of pass 4-adjacent to a member
RECURSIVE Closure(_, _, _)
Closure(S, pass, w) ==
    LET T == S \cup {p \in pass : \E q \in S : Adjacent(p, q, w)}
    IN  IF T = S THEN S ELSE Closure(T, pass, w)

\* the pixels of pass linked to an image edge by a 4-connected path in pass
EdgeConnected(pass, w, h) == Closure(pass \cap EdgePixels(w, h), pass, w)

\* the similarity test as the specification words it, for an estimate est, a
\* delta threshold thr and a light test min > lo, max - min < span
PassesTest(px, est, thr, lo, span) ==
    /\ \A c \in 1..3 : px[c] - est[c] <= thr /\ est[c] - px[c] <= thr
    /\ \A c \in 1..3 : px[c] > lo
    /\ \A c, e \in 1..3 : px[c] - px[e] < span

\* the pixels of the decoded input that pass the running operation's test
PassSet ==
    {p \in 1..NPix :
        IF op = "rwb" THEN PassesTest(input.px[p], bg, threshold, 160, 50)
        ELSE PassesTest(input.px[p], bg, bgThreshold, 150, 55)}

\* the flood fill of the running operation has ended
FillEnded ==
    \/ op = "mask" /\ pc = "skin"
    \/ op = "rwb" /\ pc = "antialias"

\* C1 (as claimed): in both flood fills, for every image of width >= 1 and
\* height >= 1, the queue never holds the same (x, y) pair twice, and when
\* the fill ends the number of queued pairs equals the number of distinct
\* pixels marked visited.  (The queue only grows, so a queue without
\* duplicates at the end of seeding and of the fill never had one.)
C1_QueueHasNoDuplicates ==
    (op \in {"mask", "rwb"} /\ pc \in {"fill", "skin", "antialias"}) =>
        /\ \A i, j \in 1..Len(queue) : i # j => queue[i] # queue[j]
        /\ FillEnded => Len(queue) = Cardinality({p \in 1..NPix : visited[p] = 1})

Applied == IF op = "apply" /\ pc \in {"loop", "done"} /\ result.kind # "original"
           THEN 1..ai ELSE {}

ApplyDone == op = "apply" /\ pc = "done" /\ result.kind = "png"

\* r is num / den rounded to the nearest integer, halves up
IsRounded(r, num, den) == den * (2 * r - 1) <= 2 * num /\ 2 * num < den * (2 * r + 1)

\* the integer nearest to num / den (den > 0), halves up: one of the two
\* integers around the quotient
Nearest(num, den) ==
    CHOOSE r \in {num \div den, num \div den + 1} : IsRounded(r, num, den)

\* round((maskGray / 255) x (maskAlpha / 255) x 255)
Brightness(mp) == Nearest(mp[1] * mp[4], 255)

\* C3: with b = round((maskGray/255) x (maskAlpha/255) x 255) and threshold
\* t: b > t + 30 gives the original pixel; b < t - 30 gives alpha 0;
\* otherwise alpha is min(original alpha, max(0, round(((b - (t - 30)) / 60)
\* x 255))).  R, G, B are the original's in every zone, and the output has
\* the original's width and height.
C3_ThreeZones ==
    /\ \A i \in Applied :
          LET b == Brightness(maskPixels[i])
          IN  /\ \A c \in 1..3 : outputPixels[i][c] = input.px[i][c]
              /\ b > threshold + 30 => outputPixels[i] = input.px[i]
              /\ b < threshold - 30 => outputPixels[i][4] = 0
              /\ (b <= threshold + 30 /\ b >= threshold - 30) =>
                    outputPixels[i][4] =
                        Min2(input.px[i][4],
                             Max2(0, Nearest(255 * (b - (threshold - 30)), 60)))
    /\ ApplyDone => Len(result.px) = input.w * input.h

\* a finished run that wrote a partial alpha on the ramp
C3_Witness ==
    /\ ApplyDone
    /\ \E i \in 1..Len(result.px) :
          result.px[i][4] > 0 /\ result.px[i][4] < input.px[i][4]

\* C4: the output alpha of every pixel is at most the original pixel's
\* alpha, for every mask value and every threshold.
C4_NeverMoreOpaque ==
    \A i \in Applied : outputPixels[i][4] <= input.px[i][4]

\* a finished run on the ramp whose edgeAlpha is above a translucent
\* original's alpha
C4_Witness ==
    /\ ApplyDone
    /\ \E i \in 1..Len(result.px) :
          /\ Brightness(maskPixels[i]) <= threshold + 30
          /\ Brightness(maskPixels[i]) >= threshold - 30
          /\ 17 * (Brightness(maskPixels[i]) - (threshold - 30)) > 4 * (input.px[i][4] + 1)
          /\ input.px[i][4] > 0

\* C5 (as claimed): under an all-255 opaque mask the output alpha equals the
\* input alpha at every pixel, for every threshold in 0..255.
C5_WhiteMaskKeepsAlpha_AllThresholds ==
    (ApplyDone /\ maskIn.kind = "white") =>
        \A i \in 1..Len(result.px) : result.px[i][4] = input.px[i][4]

\* C5 (amended): under an all-255 opaque mask the output alpha equals the
\* input alpha at every pixel for every threshold in 0..225, the default 128
\* included; for a threshold t in 226..255 brightness 255 lies on the ramp
\* and the output alpha is min(input alpha, round((285 - t) / 60 x 255)).
C5_WhiteMaskKeepsAlpha ==
    (ApplyDone /\ maskIn.kind = "white") =>
        \A i \in 1..Len(result.px) :
            /\ threshold <= 225 => result.px[i][4] = input.px[i][4]
            /\ threshold > 225 =>
                  result.px[i][4] = Min2(input.px[i][4], Nearest(255 * (285 - threshold), 60))

\* a finished run under a white mask, at a threshold other than the
\* default, on an original with an opaque pixel
C5_Witness ==
    /\ ApplyDone /\ maskIn.kind = "white" /\ threshold = 225
    /\ \E i \in 1..Len(result.px) : input.px[i][4] = 255 /\ result.px[i][4] = 255

\* C6 (as claimed): under an all-0 mask the output alpha is 0 at every pixel,
\* for every threshold in 0..255.
C6_BlackMaskClears_AllThresholds ==
    (ApplyDone /\ maskIn.kind = "black") =>
        \A i \in 1..Len(result.px) : result.px[i][4] = 0

\* C6 (amended): under an all-0 mask the output alpha is 0 at every pixel for
\* every threshold in 30..255, the default 128 included; for a threshold t in
\* 0..29 brightness 0 lies on the ramp and the output alpha is
\* min(input alpha, round((30 - t) / 60 x 255)).
C6_BlackMaskClears ==
    (ApplyDone /\ maskIn.kind = "black") =>
        \A i \in 1..Len(result.px) :
            /\ threshold >= 30 => result.px[i][4] = 0
            /\ threshold < 30 =>
                  result.px[i][4] = Min2(input.px[i][4], Nearest(255 * (30 - threshold), 60))

\* a finished run under a black mask, at the lowest threshold that clears,
\* on an original with an opaque pixel
C6_Witness ==
    /\ ApplyDone /\ maskIn.kind = "black" /\ threshold = 30
    /\ \E i \in 1..Len(result.px) : input.px[i][4] = 255 /\ result.px[i][4] = 0

(***************************************************************************)
(* createCodeBasedClothingMask: whole-image properties and the estimate.   *)
(***************************************************************************)
MaskDone == op = "mask" /\ pc = "done"

\* the light/low-saturation test as the specification words it
LightLowSat(px, lo, span) ==
    /\ \A c \in 1..3 : px[c] > lo
    /\ \A c, e \in 1..3 : px[c] - px[e] < span

OneColour(img) == \A p \in 1..Len(img.px) : img.px[p] = img.px[1]

\* C7: for every image whose pixels all have one colour with min(R,G,B) >
\* 150 and max - min < 55, of every width and height >= 1, the mask
\* createCodeBasedClothingMask returns is 0 at every pixel.
C7_UniformBackgroundGivesEmptyMask ==
    (MaskDone /\ OneColour(input) /\ LightLowSat(input.px[1], 150, 55)) =>
        /\ Len(result.px) = input.w * input.h
        /\ \A p \in 1..Len(result.px) : result.px[p] = <<0, 0, 0, 255>>

\* a finished build on a one-colour light image large enough for the 5x5
\* window to have interior pixels
C7_Witness ==
    /\ MaskDone /\ OneColour(input) /\ LightLowSat(input.px[1], 150, 55)
    /\ input.w >= 5 /\ input.h >= 5
    /\ result.kind = "mask"

\* rectangle pixels at least 2 pixels inside the rectangle on every side:
\* their whole 5x5 window lies in the rectangle
DeepInRect(x, y, r) ==
    /\ r[1] + 2 <= x /\ x <= r[3] - 2
    /\ r[2] + 2 <= y /\ y <= r[4] - 2

\* C8: for a uniform light background with one solid axis-aligned rectangle
\* of a saturated colour (fails the similarity test and the skin, shadow
\* and highlight tests), the mask is 0 at every background pixel and 255 at
\* the rectangle's pixels, except possibly rectangle pixels within 2 pixels
\* of the rectangle's boundary.
C8_RectangleMask ==
    (MaskDone /\ input.kind = "rect") =>
        \A p \in 1..Len(cleanMask) :
            /\ ~InRect(XOf(p, width), YOf(p, width), input.rect) => result.px[p][1] = 0
            /\ DeepInRect(XOf(p, width), YOf(p, width), input.rect) => result.px[p][1] = 255
            /\ result.px[p][1] \in {0, 255}

\* a finished build whose rectangle has a pixel deep inside it that the
\* cleanup passes scan, and a background around it
C8_Witness ==
    /\ MaskDone /\ input.kind = "rect"
    /\ \E p \in 1..Len(cleanMask) :
          /\ DeepInRect(XOf(p, width), YOf(p, width), input.rect)
          /\ IsInterior(p, width, height)
          /\ cleanMask[p] = 255
    /\ \E p \in 1..Len(cleanMask) :
          ~InRect(XOf(p, width), YOf(p, width), input.rect) /\ cleanMask[p] = 0

\* the 8 anchor points as the specification lists them: 4 corners, 4 edge
\* midpoints
AnchorPoints(w, h) ==
    << <<0, 0>>, <<w - 1, 0>>, <<0, h - 1>>, <<w - 1, h - 1>>,
       <<w \div 2, 0>>, <<w \div 2, h - 1>>, <<0, h \div 2>>, <<w - 1, h \div 2>> >>

AnchorColour(k) ==
    input.px[AnchorPoints(input.w, input.h)[k][2] * input.w
             + AnchorPoints(input.w, input.h)[k][1] + 1]

Qualifying(lo, span) == {k \in 1..8 : LightLowSat(AnchorColour(k), lo, span)}

RECURSIVE ChannelSum(_, _)
ChannelSum(K, c) ==
    IF K = {} THEN 0
    ELSE LET k == CHOOSE x \in K : TRUE
         IN  AnchorColour(k)[c] + ChannelSum(K \ {k}, c)

\* C9: the estimate of createCodeBasedClothingMask is the per-channel
\* rounded mean of the anchors that pass min > 150 and max - min < 55; when
\* none of the 8 qualifies it is (245, 245, 245), and the build goes on
\* through flood fill, skin detection and cleanup to return a mask.
C9_BackgroundEstimate ==
    /\ (op = "mask" /\ pc = "seed") =>
          LET K == Qualifying(150, 55)
          IN  /\ bgCount = Cardinality(K)
              /\ K # {} =>
                    \A c \in 1..3 : IsRounded(bg[c], ChannelSum(K, c), Cardinality(K))
    /\ (op = "mask" /\ pc \notin {"start", "sample", "thrown"}
            /\ Qualifying(150, 55) = {}) =>
          /\ bgCount = 0
          /\ bg = <<245, 245, 245>>
          /\ pc \in {"seed", "fill", "skin", "noise", "holes", "done"}
          /\ pc = "done" => result.kind = "mask"

\* a build that found no qualifying anchor and returned a mask that still
\* removes a background pixel near the default colour
C9_Witness ==
    /\ MaskDone /\ bgCount = 0 /\ result.kind = "mask"
    /\ \E p \in 1..Len(visited) : visited[p] = 1 /\ result.px[p] = <<0, 0, 0, 255>>

(***************************************************************************)
(* The skin phase.                                                         *)
(***************************************************************************)
\* the three tests over the exact h, s, v of a colour, as the ranges are
\* stated: skin h in [10,50], s in [5,48], v in [50,96]; shadow h in [5,55],
\* s in [3,25], v in [35,65]; highlight s < 12, 82 < v < 98, R > 200,
\* G > 190, B > 175, R - B < 40
InSkinRanges(px) ==
    \/ HueIn(px, 10, 50) /\ SatIn(px, 5, 48) /\ ValIn(px, 50, 96)
    \/ HueIn(px, 5, 55) /\ SatIn(px, 3, 25) /\ ValIn(px, 35, 65)
    \/ /\ SatBelow(px, 12) /\ ValBetween(px, 82, 98)
       /\ px[1] > 200 /\ px[2] > 190 /\ px[3] > 175 /\ px[1] - px[3] < 40

\* C11 (as claimed): after the skin phase a pixel the flood fill did not
\* mark has mask 0 if and only if its colour, converted to HSV, satisfies
\* isMannequinSkin, isMannequinShadow or isMannequinHighlight, and 255
\* otherwise; pixels the flood fill marked stay 0.
C11_SkinPhaseClassifies ==
    (op = "mask" /\ pc = "noise") =>
        \A p \in 1..NPix :
            /\ visited[p] = 1 => mask[p] = 0
            /\ visited[p] = 0 =>
                  mask[p] = (IF InSkinRanges(pixels[p]) THEN 0 ELSE 255)

(***************************************************************************)
(* The cleanup passes.                                                     *)
(***************************************************************************)
\* 2 <= x < width - 2 and 2 <= y < height - 2
InsideMargin(p) ==
    /\ 2 <= XOf(p, width) /\ XOf(p, width) < width - 2
    /\ 2 <= YOf(p, width) /\ YOf(p, width) < height - 2

\* q is one of the 24 neighbours of p in the 5x5 window around p
InWindow(q, p) ==
    /\ q # p
    /\ XOf(q, width) - XOf(p, width) \in -2..2
    /\ YOf(q, width) - YOf(p, width) \in -2..2

\* how many of the 24 window neighbours of p are 255 in m
WhiteAround(m, p) == Cardinality({q \in 1..NPix : InWindow(q, p) /\ m[q] = 255})

\* C12: noise removal changes a pixel to 0 exactly when it is interior, is
\* 255 before the pass and at most 9 of its 24 window neighbours are 255 in
\* the mask as it stood before the pass; every other pixel is unchanged.
C12_NoiseRemoval ==
    (op = "mask" /\ pc = "holes") =>
        \A p \in 1..NPix :
            cleanMask[p] =
                (IF InsideMargin(p) /\ mask[p] = 255 /\ WhiteAround(mask, p) <= 9
                 THEN 0 ELSE mask[p])

\* the pass removed an interior pixel p and kept a later interior pixel q
\* that has p among exactly 10 white neighbours, and kept an isolated
\* pixel within the margin
C12_Witness ==
    /\ op = "mask" /\ pc = "holes"
    /\ \E p, q \in 1..NPix :
          /\ InsideMargin(p) /\ mask[p] = 255 /\ cleanMask[p] = 0
          /\ InsideMargin(q) /\ q > p /\ InWindow(p, q)
          /\ WhiteAround(mask, q) = 10 /\ cleanMask[q] = 255
    /\ \E p \in 1..NPix :
          ~InsideMargin(p) /\ WhiteAround(mask, p) <= 9 /\ cleanMask[p] = 255

\* how many of the 24 window neighbours of p are 255 when the scan of the
\* hole pass reaches p: the pixels before p in the scan show what the pass
\* left there (post), the pixels after p what it found (pre)
WhiteInScan(pre, post, p) ==
    Cardinality({q \in 1..NPix :
        InWindow(q, p) /\ (IF q < p THEN post[q] ELSE pre[q]) = 255})

\* C13: hole filling sets a pixel to 255 only if the pixel is interior, is
\* 0, was not marked visited by the flood fill and at least 15 of its 24
\* window neighbours are 255; it changes nothing else; so every pixel the
\* flood fill marked visited is 0 in the mask that is returned.
C13_HoleFilling ==
    [][(op = "mask" /\ pc = "holes" /\ pc' = "done") =>
          \A p \in 1..NPix :
              /\ cleanMask'[p] # cleanMask[p] =>
                    /\ cleanMask'[p] = 255 /\ cleanMask[p] = 0
                    /\ InsideMargin(p)
                    /\ visited[p] = 0
                    /\ WhiteInScan(cleanMask, cleanMask', p) >= 15
              /\ visited[p] = 1 =>
                    cleanMask'[p] = 0 /\ result'.px[p] = <<0, 0, 0, 255>>]_vars

\* a returned mask in which the pass filled a hole the flood fill had not
\* visited and left at 0 a visited interior pixel with 15 or more white
\* neighbours
C13_Witness ==
    /\ MaskDone /\ result.kind = "mask"
    /\ \E p \in 1..NPix :
          InsideMargin(p) /\ visited[p] = 0 /\ mask[p] = 0 /\ cleanMask[p] = 255
    /\ \E p \in 1..NPix :
          /\ InsideMargin(p) /\ visited[p] = 1
          /\ WhiteAround(cleanMask, p) >= 15 /\ cleanMask[p] = 0

(***************************************************************************)
(* removeGreenBackground.                                                  *)
(***************************************************************************)
GreenDone == op = "green" /\ pc = "done" /\ result.kind = "png"

\* G > 150, G > R + 50, G > B + 50, R < 150, B < 150, or G > 200, R < 200,
\* B < 200, G - R > 30, G - B > 30
GreenOrLime(r, g, b) ==
    \/ g > 150 /\ g > r + 50 /\ g > b + 50 /\ r < 150 /\ b < 150
    \/ g > 200 /\ r < 200 /\ b < 200 /\ g - r > 30 /\ g - b > 30

\* C14: removeGreenBackground sets a pixel's alpha to 0 exactly when
\* isGreen or isLimeGreen holds; every other pixel keeps its alpha; R, G,
\* B of all pixels are unchanged; (0,255,0) gets alpha 0 and (255,0,0)
\* keeps its alpha.
C14_GreenRemoval ==
    GreenDone =>
        /\ Len(result.px) = input.w * input.h
        /\ \A p \in 1..Len(result.px) :
              LET i == input.px[p]
                  o == result.px[p]
              IN  /\ o[1] = i[1] /\ o[2] = i[2] /\ o[3] = i[3]
                  /\ o[4] = (IF GreenOrLime(i[1], i[2], i[3]) THEN 0 ELSE i[4])
                  /\ (i[1] = 0 /\ i[2] = 255 /\ i[3] = 0) => o[4] = 0
                  /\ (i[1] = 255 /\ i[2] = 0 /\ i[3] = 0) => o[4] = i[4]

\* a returned image with a (0,255,0) pixel made transparent next to a
\* (255,0,0) pixel that kept its alpha of 200
C14_Witness ==
    /\ GreenDone
    /\ \E p, q \in 1..Len(result.px) :
          /\ input.px[p] = <<0, 255, 0, 255>> /\ result.px[p][4] = 0
          /\ input.px[q] = <<255, 0, 0, 200>> /\ result.px[q][4] = 200

RwbDone == op = "rwb" /\ pc = "done" /\ result.kind = "png"

\* 1 <= x < width - 1 and 1 <= y < height - 1
OffBorder(p) ==
    /\ 1 <= XOf(p, width) /\ XOf(p, width) < width - 1
    /\ 1 <= YOf(p, width) /\ YOf(p, width) < height - 1

\* the number of 4-connected neighbours of p whose alpha is 0 in pix
ClearAround(pix, p) ==
    Cardinality({q \in 1..NPix : Adjacent(p, q, width) /\ pix[q][4] = 0})

\* whether the pass fades p: off the border, alpha > 0, 1 to 3 neighbours
\* transparent before the pass
Fades(p) ==
    /\ OffBorder(p) /\ pixels[p][4] > 0
    /\ ClearAround(pixels, p) \in 1..3

\* C16 (as claimed): the pass changes only alpha; a pixel off the border
\* with alpha > 0 and n = 1..3 neighbours transparent before the pass gets
\* round(alpha x (1 - 0.15 n)); every other pixel is unchanged; an image
\* with no transparent pixel comes out identical.
C16_AntiAlias_ExactRounding ==
    RwbDone =>
        \A p \in 1..NPix :
            /\ \A c \in 1..3 : result.px[p][c] = pixels[p][c]
            /\ result.px[p][4] =
                  (IF Fades(p)
                   THEN Nearest(pixels[p][4] * (100 - 15 * ClearAround(pixels, p)), 100)
                   ELSE pixels[p][4])

\* C16 (amended): as claimed, with the rounding the doubles give: to the
\* nearest integer, half-way products upwards, except for n = 2 and alpha
\* 45, 85, 165 or 175, whose half-way products 31.5, 59.5, 115.5 and 122.5
\* come out as 31, 59, 115 and 122; an image with no transparent pixel
\* before the pass comes out identical.
C16_AntiAlias ==
    RwbDone =>
        /\ \A p \in 1..NPix :
              LET a == pixels[p][4]
                  n == ClearAround(pixels, p)
              IN  /\ \A c \in 1..3 : result.px[p][c] = pixels[p][c]
                  /\ ~Fades(p) => result.px[p][4] = a
                  /\ Fades(p) =>
                        result.px[p][4] =
                            (IF n = 2 /\ a \in {45, 85, 165, 175}
                             THEN Nearest(a * 70, 100) - 1
                             ELSE Nearest(a * (100 - 15 * n), 100))
        /\ (\A p \in 1..NPix : pixels[p][4] # 0) => result.px = pixels

\* a returned image in which the pass faded a pixel with alpha 255 that had
\* a transparent neighbour the flood fill cleared and one that was
\* transparent in the input
C16_Witness ==
    /\ RwbDone /\ firstResult = NoResult
    /\ \E p \in 1..NPix :
          /\ Fades(p) /\ pixels[p][4] = 255 /\ result.px[p][4] < 255
          /\ \E q \in 1..NPix : Adjacent(p, q, width) /\ visited[q] = 1
          /\ \E q \in 1..NPix :
                Adjacent(p, q, width) /\ visited[q] = 0 /\ input.px[q][4] = 0

\* C17 (as claimed): a second run on the output of the first does not
\* compound fades: after removeWhiteBackground is applied to its own
\* output every pixel's alpha is what it was after the first call.
C17_FeatherIdempotent ==
    (RwbDone /\ firstResult # NoResult) =>
        \A p \in 1..NPix : result.px[p][4] = firstResult.px[p][4]

(***************************************************************************)
(* Failures.                                                               *)
(***************************************************************************)
\* C18: if the original or the mask fails to decode, or a later step fails,
\* applyMaskToImage does not raise: it returns the original input as it was
\* passed in.
C18_ApplyReturnsOriginalOnFailure ==
    op = "apply" =>
        /\ pc # "thrown" /\ result.kind # "error"
        /\ pc = "done" =>
              /\ result.kind \in {"png", "original"}
              /\ (input.kind = "bad" \/ maskIn.kind = "bad") => result.kind = "original"
              /\ result.kind = "original" => result.px = input.px

\* a call with an original that decodes and a mask that does not returned
\* the original
C18_Witness ==
    /\ op = "apply" /\ pc = "done"
    /\ input.kind = "orig" /\ maskIn.kind = "bad"
    /\ result.kind = "original" /\ result.px = input.px

\* C19: if the input fails to decode, createCodeBasedClothingMask throws the
\* error to its caller: it returns no mask, partial or whole, nor the input,
\* and has written nothing.
C19_MaskThrowsOnDecodeFailure ==
    (op = "mask" /\ input.kind = "bad") =>
        /\ pc \in {"start", "thrown"}
        /\ result.kind \in {"none", "error"}
        /\ pc = "thrown" <=> result.kind = "error"
        /\ result.px = <<>> /\ mask = <<>> /\ cleanMask = <<>>

\* a call on bytes that do not decode has thrown
C19_Witness == op = "mask" /\ input.kind = "bad" /\ pc = "thrown" /\ result.kind = "error"

(***************************************************************************)
(* /api/process: an error in a step fails one item only.                   *)
(***************************************************************************)
IsEv(ev, type, idx, stp) == ev.type = type /\ ev.itemIndex = idx /\ ev.step = stp

EventsOf(idx) == {n \in 1..Len(events) : events[n].itemIndex = idx}

ItemErrors(idx) == {n \in EventsOf(idx) : events[n].type = "item_error"}

\* the step of item idx whose call threw: the one that sent the last
\* step_start before the item_error at position n
FailedStep(n) == events[n - 1].step

\* what follows the item_error of item idx at position n: nothing yet and the
\* loop stands at item idx + 1; or the next item's item_start (or the error
\* of its directory setup); or, after the last item, done
LoopGoesOn(n, idx) ==
    IF n = Len(events)
    THEN pc = "item" /\ itemIndex = idx + 1
    ELSE IF idx + 1 < Len(step1Items)
         THEN \/ IsEv(events[n + 1], "item_start", idx + 1, 0)
              \/ IsEv(events[n + 1], "error", -1, 0)
         ELSE IsEv(events[n + 1], "done", -1, 0)

\* C20: when a step of item i throws, exactly one item_error is sent for
\* item i, directly after that step's step_start; no later step of item i
\* starts, completes or is skipped and no item_complete is sent for it; the
\* loop goes on with item i+1; and once the loop has passed the last item
\* the last event is done, however many items failed.
C20_StepErrorFailsOnlyItsItem ==
    /\ op = "process" =>
         \A n \in 1..Len(events) :
            events[n].type = "item_error" =>
               LET idx == events[n].itemIndex IN
               /\ ItemErrors(idx) = {n}
               /\ n > 1 /\ events[n - 1].type = "step_start"
               /\ events[n - 1].itemIndex = idx
               /\ \A m \in EventsOf(idx) :
                     /\ m <= n
                     /\ events[m].step <= FailedStep(n)
                     /\ events[m].type # "item_complete"
                     /\ (events[m].step = FailedStep(n)
                            => events[m].type = "step_start")
               /\ LoopGoesOn(n, idx)
    /\ (op = "process" /\ pc = "closed" /\ itemIndex = Len(step1Items)) =>
         /\ IsEv(events[Len(events)], "done", -1, 0)
         /\ \A idx \in 0..(Len(step1Items) - 1) :
               Cardinality({n \in EventsOf(idx) :
                   events[n].type \in {"item_error", "item_complete"}}) = 1

\* two items: step 3 of the first threw after steps 1 and 2 completed, the
\* second item completed all five steps, and done was sent
C20_Witness ==
    /\ op = "process" /\ pc = "closed" /\ Len(step1Items) = 2
    /\ \E n \in ItemErrors(0) : FailedStep(n) = 3
    /\ \E m \in EventsOf(0) : IsEv(events[m], "step_complete", 0, 2)
    /\ \E m \in EventsOf(1) : IsEv(events[m], "step_complete", 1, 5)
    /\ \E m \in EventsOf(1) : IsEv(events[m], "item_complete", 1, 0)
    /\ IsEv(events[Len(events)], "done", -1, 0)

(***************************************************************************)
(* saveBase64Image and the /tmp tree.                                      *)
(***************************************************************************)
\* C21 (as claimed): whatever outputDir and fileName are, the file that
\* saveBase64Image writes, whose path it returns, lies inside /tmp.
C21_SaveStaysUnderTmp ==
    (op = "save" /\ pc = "done") => InsideTmp(result.path)

(***************************************************************************)
(* The hole pass reads the mask it writes.                                 *)
(***************************************************************************)
\* the hole pass evaluated against the mask as it stood when the pass began
SnapshotFill(cm, vis, w, h) ==
    [p \in 1..Len(cm) |->
        IF /\ IsInterior(p, w, h) /\ cm[p] = 0 /\ vis[p] = 0
           /\ 10 * whiteNeighbors(cm, p, w) > 6 * totalChecked
        THEN 255 ELSE cm[p]]

BeforeHoles == NoisePass(mask, width, height)

\* C22: in the returned mask a pixel is 255 exactly if it was 255 before the
\* hole pass or it is an interior, unvisited 0 pixel with at least 15 of its
\* 24 window neighbours at 255, where the neighbours before it in the
\* row-major scan count as the pass left them; so whatever the evaluation
\* against the mask at the start of the pass fills is filled, and a pixel
\* filled beyond that has in its window an earlier pixel the pass filled.
C22_HolePassReadsItsOwnWrites ==
    (MaskDone /\ result.kind = "mask") =>
        LET pre == BeforeHoles
            snap == SnapshotFill(pre, visited, width, height)
        IN  \A p \in 1..NPix :
               /\ cleanMask[p] = 255 <=>
                     \/ pre[p] = 255
                     \/ /\ InsideMargin(p) /\ visited[p] = 0
                        /\ WhiteInScan(pre, cleanMask, p) >= 15
               /\ snap[p] = 255 => cleanMask[p] = 255
               /\ cleanMask[p] # snap[p] =>
                     /\ WhiteAround(pre, p) < 15
                     /\ \E q \in 1..(p - 1) :
                           InWindow(q, p) /\ pre[q] = 0 /\ cleanMask[q] = 255

\* an input on which the pass returns another mask than the evaluation
\* against the mask at the start of the pass
C22_Witness ==
    /\ MaskDone /\ result.kind = "mask"
    /\ cleanMask # SnapshotFill(BeforeHoles, visited, width, height)

(***************************************************************************)
(* /api/files and the /tmp tree.                                           *)
(***************************************************************************)
\* the directory /tmp or a path below it
UnderTmp(segs) == segs # <<>> /\ segs[1] = "tmp"

\* where the path of the request leads: the path itself for GET, the path
\* taken from /tmp/output for DELETE
RequestTarget ==
    IF input.kind = "GET"
    THEN (IF input.path = NoPath THEN OUTPUT_BASE.segs
          ELSE IF input.path.abs THEN normalize(input.path.segs) ELSE <<>>)
    ELSE normalize(OUTPUT_BASE.segs \o input.path.segs)

\* C23 (as claimed): what a GET lists and a DELETE removes lies in the /tmp
\* tree, and a request whose path leads outside it is answered 403.
C23_FilesStayUnderTmp ==
    (op = "files" /\ pc = "done") =>
        /\ result.kind \in {"listed", "deleted"} => UnderTmp(result.path)
        /\ (~UnderTmp(RequestTarget) /\ result.kind # "400") => result.kind = "403"

(***************************************************************************)
(* /api/process: items and the data of their rows.                         *)
(***************************************************************************)
\* C24 (as claimed): the step-2 prompt used for an item is the one in the
\* item's own row, or none when that cell is empty, in every row mode.
C24_ItemsKeepTheirRows ==
    (op = "rows" /\ pc = "done") =>
        \A i \in 1..Len(result.pairs) :
            LET row == result.pairs[i].item IN
            result.pairs[i].step2 = (IF input.step2Col[row] THEN row ELSE 0)

(***************************************************************************)
(* /api/process: the stream controller.                                    *)
(***************************************************************************)
CloseCalls == {n \in 1..Len(controllerCalls) : controllerCalls[n] = "close"}

\* C25 (as claimed): on every path of the handler controller.close is called
\* exactly once, as the last call on the controller; nothing is enqueued
\* after it.
C25_ClosedExactlyOnce ==
    op = "process" =>
        /\ pc = "closed" => Cardinality(CloseCalls) = 1
        /\ \A n \in CloseCalls : n = Len(controllerCalls)

(***************************************************************************)
(* /api/process: the progress values.                                      *)
(***************************************************************************)
WithProgress == {n \in 1..Len(events) : events[n].progress # -1}

\* C26 (as claimed): completedSteps never exceeds totalItems x 5, every
\* progress value sent before done is at most 95, the progress values never
\* decrease, and done reports 100.  (The progress field holds totalItems
\* times the value.)
C26_ProgressInRange ==
    (op = "process" /\ pc # "read") =>
        /\ completedSteps <= totalItems * stepsPerItem
        /\ \A n \in WithProgress :
              IF events[n].type = "done"
              THEN events[n].progress = 100 * totalItems
              ELSE events[n].progress <= 95 * totalItems
        /\ \A m \in WithProgress, n \in WithProgress :
              m < n => events[m].progress <= events[n].progress

(***************************************************************************)
(* /api/process: the order of the events of an item.                       *)
(***************************************************************************)
Terminal == {"item_complete", "item_error"}

StepEnd == {"step_complete", "step_skip"}

\* C27: the events carrying an item index appear in item order; the first
\* event of item i is its only item_start, sent when item i-1 has had its
\* terminal event; its step events come with non-decreasing step numbers,
\* each step has at most one step_complete or step_skip, step 1 is never
\* skipped and a step_complete directly follows the step_start of its step;
\* an item has at most one terminal event, which is its last event, and has
\* one as soon as the loop has moved past it.
C27_EventsOrderedPerItem ==
    op = "process" =>
        /\ \A m \in 1..Len(events), n \in 1..Len(events) :
              (m < n /\ events[m].itemIndex >= 0 /\ events[n].itemIndex >= 0)
                 => events[m].itemIndex <= events[n].itemIndex
        /\ \A idx \in 0..(totalItems - 1) :
              LET mine == EventsOf(idx)
                  ends == {n \in mine : events[n].type \in Terminal}
              IN  /\ mine # {} =>
                        /\ \A n \in mine :
                              events[n].type = "item_start" <=> (\A m \in mine : n <= m)
                        /\ idx > 0 => \E m \in EventsOf(idx - 1) :
                                         /\ events[m].type \in Terminal
                                         /\ \A n \in mine : m < n
                  /\ \A m \in mine, n \in mine :
                        (m < n /\ events[n].type \notin Terminal)
                           => events[m].step <= events[n].step
                  /\ \A k \in 1..stepsPerItem :
                        Cardinality({n \in mine : events[n].type \in StepEnd
                                                    /\ events[n].step = k}) <= 1
                  /\ \A n \in mine :
                        /\ events[n].type = "step_skip" => events[n].step # 1
                        /\ events[n].type = "step_complete" =>
                              IsEv(events[n - 1], "step_start", idx, events[n].step)
                  /\ Cardinality(ends) <= 1
                  /\ \A n \in ends : \A m \in mine : m <= n
                  /\ idx < itemIndex => Cardinality(ends) = 1

\* the request is over: the first item skipped step 3 and with it step 4, and
\* completed; a step of the second item threw after its step 1 completed
C27_Witness ==
    /\ op = "process" /\ pc = "closed" /\ totalItems = 2 /\ itemIndex = 2
    /\ \E n \in EventsOf(0) : IsEv(events[n], "step_skip", 0, 3)
    /\ \E n \in EventsOf(0) : IsEv(events[n], "step_skip", 0, 4)
    /\ \E n \in EventsOf(0) : events[n].type = "item_complete"
    /\ \E n \in EventsOf(1) : IsEv(events[n], "step_complete", 1, 1)
    /\ \E n \in EventsOf(1) : events[n].type = "item_error"

(***************************************************************************)
(* startPipeline: the reader and the chunks.                               *)
(***************************************************************************)
IsPrefix(a, b) == Len(a) <= Len(b) /\ a = SubSeq(b, 1, Len(a))

\* C28: however the response is cut into chunks, the events handled so far
\* are the first of the events sent, in the order sent; buffer never holds a
\* line feed; and when the response has been read to its end every event
\* sent has been handled once and nothing is left in buffer.
C28_ReaderIgnoresChunking ==
    op = "sse" =>
        /\ IsPrefix(dispatched, input.sent)
        /\ \A k \in 1..Len(buffer) : buffer[k] # "\n"
        /\ pc = "done" => (dispatched = input.sent /\ buffer = <<>> /\ pending = <<>>)

\* two events were sent; the first has been handled, and the chunk read last
\* ended inside the last character of the second event's line, which is
\* carried over in buffer
C28_Witness ==
    /\ op = "sse" /\ Len(input.sent) = 2
    /\ dispatched = <<input.sent[1]>>
    /\ pending = <<"c3">>
    /\ buffer = <<"da", "ta: ", input.sent[2]>>

(***************************************************************************)
(* Column letters and indices.                                             *)
(***************************************************************************)
\* C29: letterToIndex(indexToLetter(i)) = i for every index i >= 0, with
\* 0 = A, 25 = Z and 26 = AA, and no other index has the letters of i.
C29_LettersInvertIndices ==
    /\ (op = "letters" /\ pc = "done") => result.index = input.index
    /\ (op = "letters" /\ pc \in {"letter", "done"}) =>
          /\ input.index = 0 => result.letter = <<65>>
          /\ input.index = 25 => result.letter = <<90>>
          /\ input.index = 26 => result.letter = <<65, 65>>
          /\ \A k \in 1..Len(result.letter) : result.letter[k] \in 65..90
          /\ \A other \in 0..MaxIndex :
                other # input.index => indexToLetter(other) # result.letter

\* index 701 went to ZZ and back
C29_Witness ==
    /\ op = "letters" /\ pc = "done" /\ input.index = 701
    /\ result.letter = <<90, 90>> /\ result.index = 701

(***************************************************************************)
(* applyMaskToImage is monotone in the mask.                               *)
(***************************************************************************)
\* C30: in a finished run, of two pixels with the same original alpha the
\* one whose effective mask brightness is higher does not come out with the
\* lower alpha, whichever zones of the threshold the two brightnesses lie in.
C30_MonotoneInMask ==
    ApplyDone =>
        \A p \in 1..Len(result.px), q \in 1..Len(result.px) :
            (/\ input.px[p][4] = input.px[q][4]
             /\ Brightness(maskPixels[p]) <= Brightness(maskPixels[q]))
               => result.px[p][4] <= result.px[q][4]

\* a finished run at the default threshold on two opaque pixels whose mask
\* brightnesses are threshold+29 and threshold+30: the first came out at 251,
\* the second kept 255
C30_Witness ==
    /\ ApplyDone /\ threshold = applyDefaultThreshold /\ Len(result.px) = 2
    /\ input.px[1][4] = 255 /\ input.px[2][4] = 255
    /\ Brightness(maskPixels[1]) = threshold + 29
    /\ Brightness(maskPixels[2]) = threshold + 30
    /\ result.px[1][4] = 251 /\ result.px[2][4] = 255

(***************************************************************************)
(* removeWhiteBackground with no qualifying anchor.                        *)
(***************************************************************************)
\* C10 (as claimed): when none of the 8 anchors passes the light test,
\* removeWhiteBackground takes the default background colour and still
\* flood-fills from the edges: every edge-connected pixel that passes the
\* similarity test against the default has alpha 0 in what is returned.
C10_RwbFallsBackToDefault ==
    (op = "rwb" /\ pc = "done" /\ input.kind # "bad" /\ Qualifying(160, 50) = {}) =>
        LET pass == {p \in 1..Len(input.px) :
                        PassesTest(input.px[p], <<245, 245, 245>>, threshold, 160, 50)}
        IN  \A p \in EdgeConnected(pass, input.w, input.h) : result.px[p][4] = 0

=========================================================================
